---- MODULE Spec2Model ----
(***************************************************************************)
(* Model of zfit's coordinate/domain algebra (zfit/core/space_new.py):     *)
(* Coordinates, Limit, Space, MultiSpace and the combinators               *)
(* add_spaces_new / combine_spaces_new.                                    *)
(*                                                                         *)
(* The library is purely functional: every operation builds a new value    *)
(* from its arguments.  The state records the last call: which operation   *)
(* ran (op), its arguments (args) and what it returned or raised (res).    *)
(* A behaviour starts with the arguments chosen and no call made yet        *)
(* (op = "init") and takes one step: the call.                              *)
(*                                                                         *)
(* Conventions                                                             *)
(*  - Python None for obs/axes is a flag (hasObs/hasAxes = FALSE) next to  *)
(*    an empty tuple, so that the empty tuple () stays distinguishable.    *)
(*  - A raised exception is the value Err(name).                           *)
(*  - Python booleans that a property may fail to produce are the strings  *)
(*    "True" / "False", next to the name of the exception raised instead.  *)
(*  - Sequence positions are 1-based here and 0-based in the source.       *)
(*  - An array of shape (1, n_obs) is a sequence of length n_obs.          *)
(***************************************************************************)
EXTENDS Integers, Sequences, FiniteSets, TLC

VARIABLES op, args, res

vars == <<op, args, res>>

(***************************************************************************)
(* Bounds of the model.                                                    *)
(***************************************************************************)
\* bounds of a box are drawn from 0..MaxVal (lower) and 1..MaxVal+1 (upper)
MaxVal == 1
\* number of distinct predicate objects (limit functions)
NFn == 2
\* largest number of dimensions of a Space given to a combinator
MaxDim == 2

(***************************************************************************)
(* Generic helpers.                                                        *)
(***************************************************************************)
\* an exception; k lets it stand where a tagged argument is expected
Err(e) == [type |-> "Error", k |-> "Error", err |-> e]

\* no call made yet
NoRes == [type |-> "None"]

IsErr(v) == v.type = "Error"

Range(s) == {s[i] : i \in 1..Len(s)}

\* list.index / tuple.index: position of the first occurrence
IndexOf(s, e) == CHOOSE i \in 1..Len(s) : s[i] = e /\ \A j \in 1..(i - 1) : s[j] # e

\* [o for o in s if o in keep]
RECURSIVE FilterIn(_, _)
FilterIn(s, keep) ==
    IF s = <<>> THEN <<>>
    ELSE IF Head(s) \in keep THEN <<Head(s)>> \o FilterIn(Tail(s), keep)
    ELSE FilterIn(Tail(s), keep)

\* s[lo:hi] of Python (0-based, hi exclusive, clamped to the length)
PySlice(s, lo, hi) ==
    LET h == IF hi > Len(s) THEN Len(s) ELSE hi
    IN IF lo >= h THEN <<>> ELSE SubSeq(s, lo + 1, h)

\* concatenation of a sequence of sequences
RECURSIVE Flatten(_)
Flatten(ss) == IF ss = <<>> THEN <<>> ELSE Head(ss) \o Flatten(Tail(ss))

NoDups(s) == \A i, j \in 1..Len(s) : i # j => s[i] # s[j]

\* all duplicate-free sequences over S of length 1..n
Tuples(S, n) == {s \in UNION {[1..k -> S] : k \in 1..n} : NoDups(s)}

(***************************************************************************)
(* Coordinates                                                             *)
(***************************************************************************)
\* Coordinates._check_convert_obs_axes for obs/axes given as tuples or None
Coordinates_check_convert_obs_axes(hasObs, obs, hasAxes, axes) ==
    IF ~hasObs /\ ~hasAxes THEN Err("CoordinatesUnderdefinedError")
    ELSE IF hasObs /\ hasAxes /\ Len(obs) # Len(axes) THEN Err("CoordinatesIncompatibleError")
    ELSE [type |-> "Coordinates", hasObs |-> hasObs, obs |-> obs,
          hasAxes |-> hasAxes, axes |-> axes,
          n_obs |-> IF hasObs THEN Len(obs) ELSE Len(axes)]

\* the indices of `new` read from its end
reorder_indices_reversed(old, new) == [i \in 1..Len(new) |-> IndexOf(old, new[Len(new) + 1 - i])]

\* _reorder_indices(old, new): tuple(old.index(o) for o in new)
reorder_indices(old, new) == [i \in 1..Len(new) |-> IndexOf(old, new[i])]

\* Coordinates.get_reorder_indices, for a coordinates value c
get_reorder_indices(c, hasObsArg, obsArg, hasAxesArg, axesArg) ==
    LET obs_is_defined == c.hasObs /\ hasObsArg
        axes_is_defined == c.hasAxes /\ hasAxesArg
    IN IF ~(obs_is_defined \/ axes_is_defined) THEN Err("ValueError")
       ELSE IF obs_is_defined
            THEN [type |-> "indices", v |-> reorder_indices(c.obs, FilterIn(obsArg, Range(c.obs)))]
            ELSE [type |-> "indices", v |-> reorder_indices(c.axes, FilterIn(axesArg, Range(c.axes)))]

\* Coordinates._reorder_obs / _reorder_axes
reorder_seq(s, indices) == [i \in 1..Len(indices) |-> s[indices[i]]]

\* Coordinates.with_obs(obs, allow_superset, allow_subset)
Coordinates_with_obs(c, hasObsArg, obsArg, allow_superset, allow_subset) ==
    IF ~hasObsArg
    THEN IF ~c.hasAxes THEN Err("AxesIncompatibleError")
         ELSE Coordinates_check_convert_obs_axes(FALSE, <<>>, TRUE, c.axes)
    ELSE IF ~c.hasObs THEN Err("TypeError")   \* frozenset(None)
    ELSE IF Range(obsArg) # Range(c.obs) /\ ~allow_superset /\ Range(c.obs) \subseteq Range(obsArg)
         THEN Err("ObsIncompatibleError")
    ELSE IF Range(obsArg) # Range(c.obs) /\ ~allow_subset /\ Range(obsArg) \subseteq Range(c.obs)
         THEN Err("ObsIncompatibleError")
    ELSE LET ind == get_reorder_indices(c, TRUE, obsArg, FALSE, <<>>)
         IN Coordinates_check_convert_obs_axes(
                TRUE, reorder_seq(c.obs, ind.v),
                c.hasAxes, IF c.hasAxes THEN reorder_seq(c.axes, ind.v) ELSE <<>>)

\* Coordinates.with_axes(axes, allow_superset, allow_subset)
Coordinates_with_axes(c, hasAxesArg, axesArg, allow_superset, allow_subset) ==
    IF ~hasAxesArg
    THEN IF ~c.hasObs THEN Err("ObsIncompatibleError")
         ELSE Coordinates_check_convert_obs_axes(TRUE, c.obs, FALSE, <<>>)
    ELSE IF ~c.hasAxes THEN Err("TypeError")   \* frozenset(None)
    ELSE IF Range(axesArg) # Range(c.axes) /\ ~allow_superset /\ Range(c.axes) \subseteq Range(axesArg)
         THEN Err("AxesIncompatibleError")
    ELSE IF Range(axesArg) # Range(c.axes) /\ ~allow_subset /\ Range(axesArg) \subseteq Range(c.axes)
         THEN Err("AxesIncompatibleError")
    ELSE LET ind == get_reorder_indices(c, FALSE, <<>>, TRUE, axesArg)
         IN Coordinates_check_convert_obs_axes(
                c.hasObs, IF c.hasObs THEN reorder_seq(c.obs, ind.v) ELSE <<>>,
                TRUE, reorder_seq(c.axes, ind.v))

(***************************************************************************)
(* Limit                                                                   *)
(*                                                                         *)
(* Arguments of the constructors are tagged records:                       *)
(*   [k |-> "None"], [k |-> "False"], [k |-> "box", lower, upper],         *)
(*   [k |-> "fn", f] (a callable, f its identity), [k |-> "dict", d],      *)
(*   [k |-> "limit", l] (a ZfitLimit to copy).                             *)
(* A Limit value keeps _limit_fn (0 = None, -1 = False, f > 0 a callable), *)
(* _rect_limits ("None", "False" or "box" with lower/upper), _n_obs,       *)
(* _is_rect (None is kept as FALSE: it is only read through `and`) and     *)
(* split: whether _sublimits is the per-dimension decomposition (TRUE) or  *)
(* the one-element tuple (self,) (FALSE).                                  *)
(***************************************************************************)
NoneArg == [k |-> "None"]
FalseArg == [k |-> "False"]
BoxArg(lo, up) == [k |-> "box", lower |-> lo, upper |-> up]
FnArg(f) == [k |-> "fn", f |-> f]
DictArg(d) == [k |-> "dict", d |-> d]

\* n_obs = None
NoNObs == -1

FnNone == 0
FnFalse == -1

\* Limit._check_convert_input_limits
Limit_check_convert_input_limits(limits_fn, rect_limits, n_obs) ==
    IF limits_fn.k = "limit"
    THEN IF rect_limits.k # "None" \/ (n_obs # NoNObs /\ n_obs # 0) THEN Err("OverdefinedError")
         ELSE [type |-> "Limit", limit_fn |-> limits_fn.l.limit_fn, rect |-> limits_fn.l.rect,
               lower |-> limits_fn.l.lower, upper |-> limits_fn.l.upper, n_obs |-> limits_fn.l.n_obs,
               is_rect |-> limits_fn.l.rect \notin {"False", "None"} /\ limits_fn.l.is_rect,
               split |-> FALSE]
    ELSE IF (limits_fn.k = "False" /\ rect_limits.k \in {"False", "None"})
            \/ (limits_fn.k = "None" /\ rect_limits.k = "False")
    THEN [type |-> "Limit", limit_fn |-> FnFalse, rect |-> "False", lower |-> <<>>, upper |-> <<>>,
          n_obs |-> n_obs, is_rect |-> FALSE, split |-> FALSE]
    ELSE IF limits_fn.k = "None" /\ rect_limits.k = "None"
    THEN [type |-> "Limit", limit_fn |-> FnNone, rect |-> "None", lower |-> <<>>, upper |-> <<>>,
          n_obs |-> n_obs, is_rect |-> FALSE, split |-> FALSE]
    ELSE LET lf1 == IF limits_fn.k = "None" THEN rect_limits ELSE limits_fn
             rl1 == IF limits_fn.k = "None" THEN NoneArg ELSE rect_limits
             isfn == lf1.k = "fn"
             rl2 == IF isfn THEN rl1 ELSE lf1
         IN IF isfn /\ rl1.k \in {"None", "False"} THEN Err("ValueError")
            ELSE IF rl2.k # "box" THEN Err("TypeError")
            ELSE IF Len(rl2.lower) # Len(rl2.upper) THEN Err("InvalidArgumentError")
            ELSE IF n_obs # NoNObs /\ Len(rl2.lower) # n_obs THEN Err("InvalidArgumentError")
            ELSE [type |-> "Limit", limit_fn |-> IF isfn THEN lf1.f ELSE FnNone, rect |-> "box",
                  lower |-> rl2.lower, upper |-> rl2.upper, n_obs |-> Len(rl2.lower),
                  is_rect |-> ~isfn, split |-> ~isfn /\ Len(rl2.lower) > 1]

\* Limit.limits_not_set
Limit_limits_not_set(l) == l.rect = "None"

\* Limit.has_limits
Limit_has_limits(l) == l.rect # "False" /\ ~Limit_limits_not_set(l)

\* Limit.has_rect_limits
Limit_has_rect_limits(l) == Limit_has_limits(l) /\ l.is_rect

\* Limit.__iter__: the sub-limits
Limit_iter(l) ==
    IF l.split
    THEN [i \in 1..l.n_obs |->
            Limit_check_convert_input_limits(NoneArg, BoxArg(<<l.lower[i]>>, <<l.upper[i]>>), 1)]
    ELSE <<l>>

(***************************************************************************)
(* Space                                                                   *)
(*                                                                         *)
(* _limits_dict is an insertion-ordered mapping.  Its entries under the    *)
(* keys 'obs' and 'axes' are the sequences ld.obs and ld.axes (hasObs /    *)
(* hasAxes: the key is present); entries stored directly under a tuple key *)
(* at the top level are ld.strayObs / ld.strayAxes.  isDefault: the        *)
(* mapping is a defaultdict(dict).  An entry is a key (a tuple of          *)
(* dimensions, or a bare dimension when scalar = TRUE) and what is stored  *)
(* under it.                                                               *)
(***************************************************************************)
Entry(key, limit) == [key |-> key, scalar |-> FALSE, limit |-> limit]

EmptyDict == [hasObs |-> FALSE, obs |-> <<>>, hasAxes |-> FALSE, axes |-> <<>>,
              strayObs |-> <<>>, strayAxes |-> <<>>, isDefault |-> FALSE]

\* len(_limits_dict)
DictLen(d) == (IF d.hasObs THEN 1 ELSE 0) + (IF d.hasAxes THEN 1 ELSE 0)
              + Len(d.strayObs) + Len(d.strayAxes)

\* i_old of the k-th sub-limit in Space._check_convert_input_limits
RECURSIVE SumNObs(_, _)
SumNObs(subs, k) == IF k = 0 THEN 0 ELSE SumNObs(subs, k - 1) + subs[k].n_obs

\* the entries `limits_dict[...][coord[i_old:i]] = lim` stored for the sub-limits
LimitEntries(subs, coord) ==
    [k \in 1..Len(subs) |->
        Entry(PySlice(coord, SumNObs(subs, k - 1), SumNObs(subs, k)), subs[k])]

\* the loop of Space._check_convert_input_limits over the sub-limits of the Limit l
Space_split_limit(l, hasObs, obs, hasAxes, axes) ==
    IF IsErr(l) THEN l
    ELSE [type |-> "dict",
          d |-> [hasObs |-> hasObs,
                 obs |-> IF hasObs THEN LimitEntries(Limit_iter(l), obs) ELSE <<>>,
                 hasAxes |-> hasAxes,
                 axes |-> IF hasAxes THEN LimitEntries(Limit_iter(l), axes) ELSE <<>>,
                 strayObs |-> <<>>, strayAxes |-> <<>>, isDefault |-> TRUE]]

\* Space._check_convert_input_limits
Space_check_convert_input_limits(limit, rect_limits, hasObs, obs, hasAxes, axes, n_obs) ==
    IF limit.k = "dict" THEN [type |-> "dict", d |-> limit.d]
    ELSE IF rect_limits.k = "dict" THEN [type |-> "dict", d |-> rect_limits.d]
    ELSE Space_split_limit(Limit_check_convert_input_limits(limit, rect_limits, n_obs),
                           hasObs, obs, hasAxes, axes)

NoCoord == [k |-> "None"]
TupleCoord(v) == [k |-> "tuple", v |-> v]
CoordsArg(c) == [k |-> "coords", c |-> c]

\* BaseSpace.__init__: Coordinates(obs, axes)
BaseSpace_init(obsArg, axesArg) ==
    IF obsArg.k = "coords"
    THEN IF axesArg.k # "None" THEN Err("OverdefinedError") ELSE obsArg.c
    ELSE Coordinates_check_convert_obs_axes(
             obsArg.k = "tuple", IF obsArg.k = "tuple" THEN obsArg.v ELSE <<>>,
             axesArg.k = "tuple", IF axesArg.k = "tuple" THEN axesArg.v ELSE <<>>)

\* the Space over the coordinates c with _limits_dict ld, or the exception ld is
Space_of(c, ld) ==
    IF IsErr(ld) THEN ld
    ELSE [type |-> "Space", hasObs |-> c.hasObs, obs |-> c.obs,
          hasAxes |-> c.hasAxes, axes |-> c.axes, n_obs |-> c.n_obs, ld |-> ld.d]

\* Space.__init__(obs, limits, axes, rect_limits)
Space_init(obsArg, limits, axesArg, rect_limits) ==
    LET c == BaseSpace_init(obsArg, axesArg)
    IN IF IsErr(c) THEN c
       ELSE Space_of(c, Space_check_convert_input_limits(limits, rect_limits, c.hasObs, c.obs,
                                                         c.hasAxes, c.axes, c.n_obs))

\* BaseSpace.coords of a Space or MultiSpace
CoordsOf(s) == [type |-> "Coordinates", hasObs |-> s.hasObs, obs |-> s.obs,
                hasAxes |-> s.hasAxes, axes |-> s.axes, n_obs |-> s.n_obs]

\* Space.has_rect_limits (the later definition in the class body, which is the one in effect)
Space_has_rect_limits(s) ==
    LET present == IF s.hasObs THEN s.ld.hasObs ELSE s.ld.hasAxes
        d == IF s.hasObs THEN s.ld.obs ELSE s.ld.axes
    IN IF ~present \/ d = <<>> THEN "False"
       ELSE IF \E i \in 1..Len(d) : d[i].limit.type # "Limit" THEN "AttributeError"
       ELSE IF \A i \in 1..Len(d) : Limit_has_rect_limits(d[i].limit) THEN "True"
       ELSE "False"

\* Space.limits_not_set
Space_limits_not_set(s) == IF DictLen(s.ld) = 0 THEN "True" ELSE "False"

\* Space.has_limits
Space_has_limits(s) ==
    IF Space_limits_not_set(s) = "True" THEN "False"
    ELSE LET r == Space_has_rect_limits(s)
         IN IF r \notin {"True", "False"} THEN r
            ELSE IF r # "False" THEN "True" ELSE "False"

\* Space.limits_are_set
Space_limits_are_set(s) == IF Space_limits_not_set(s) = "True" THEN "False" ELSE "True"

\* Space.limits_are_false
Space_limits_are_false(s) ==
    IF Space_limits_are_set(s) = "False" THEN "False"
    ELSE LET h == Space_has_limits(s)
         IN IF h \notin {"True", "False"} THEN h
            ELSE IF h = "True" THEN "False" ELSE "True"

\* self._limits_dict[scheme]: the entries, {} from a defaultdict, else KeyError
DictItem(d, scheme) ==
    LET present == IF scheme = "obs" THEN d.hasObs ELSE d.hasAxes
    IN IF present THEN [type |-> "entries", v |-> IF scheme = "obs" THEN d.obs ELSE d.axes]
       ELSE IF d.isDefault THEN [type |-> "entries", v |-> <<>>]
       ELSE Err("KeyError")

\* a mapping {key: Limit} handed over as the whole `limits` argument: its keys become
\* top-level keys of the new _limits_dict
StrayDict(scheme, entries) ==
    [EmptyDict EXCEPT !.strayObs = IF scheme = "obs" THEN entries ELSE <<>>,
                      !.strayAxes = IF scheme = "axes" THEN entries ELSE <<>>]

\* Space.copy(**overwrite_kwargs); ov.keys are the names of the overrides given.
\* kwargs is updated before the key check, so the check never finds a foreign key;
\* a foreign key reaches Space(**kwargs) instead.
Space_copy(s, ov) ==
    IF ov.keys \ ({"name", "limits", "axes", "obs"} \cup ov.keys) # {} THEN Err("KeyError")
    ELSE IF ov.keys \ {"name", "limits", "axes", "obs", "rect_limits"} # {} THEN Err("TypeError")
    ELSE Space_init(IF "obs" \in ov.keys THEN ov.obs
                    ELSE IF s.hasObs THEN TupleCoord(s.obs) ELSE NoCoord,
                    IF "limits" \in ov.keys THEN ov.limits ELSE DictArg(s.ld),
                    IF "axes" \in ov.keys THEN ov.axes
                    ELSE IF s.hasAxes THEN TupleCoord(s.axes) ELSE NoCoord,
                    IF "rect_limits" \in ov.keys THEN ov.rect_limits ELSE NoneArg)

\* Space.with_obs(obs, allow_superset, allow_subset); obsArg is NoCoord or TupleCoord
Space_with_obs(s, obsArg, allow_superset, allow_subset) ==
    IF obsArg.k = "None"
    THEN IF ~s.hasObs THEN s
         ELSE IF ~s.hasAxes THEN Err("AxesIncompatibleError")
         ELSE LET new_limits == DictItem(s.ld, "obs")
              IN IF IsErr(new_limits) THEN new_limits
                 ELSE Space_copy(s, [keys |-> {"obs", "limits"}, obs |-> NoCoord,
                                     limits |-> DictArg(StrayDict("obs", new_limits.v))])
    ELSE LET coords == Coordinates_with_obs(CoordsOf(s), TRUE, obsArg.v, allow_superset, allow_subset)
         IN IF IsErr(coords) THEN coords
            ELSE Space_init(CoordsArg(coords), DictArg(s.ld), NoCoord, NoneArg)

\* Space.with_axes(axes, allow_superset, allow_subset)
Space_with_axes(s, axesArg, allow_superset, allow_subset) ==
    IF axesArg.k = "None"
    THEN IF ~s.hasAxes THEN s
         ELSE IF ~s.hasObs THEN Err("ObsIncompatibleError")
         ELSE LET new_limits == DictItem(s.ld, "axes")
              IN IF IsErr(new_limits) THEN new_limits
                 ELSE Space_copy(s, [keys |-> {"axes", "limits"}, axes |-> NoCoord,
                                     limits |-> DictArg(StrayDict("axes", new_limits.v))])
    ELSE IF ~s.hasAxes
    THEN IF Len(axesArg.v) # Len(s.obs) THEN Err("AxesIncompatibleError")
         ELSE LET d == DictItem(s.ld, "obs")
              IN IF IsErr(d) THEN d
                 \* `for obs, limit in self._limits_dict['obs']` unpacks every key tuple
                 ELSE IF d.v = <<>> THEN Err("UnboundLocalError")
                 ELSE IF Len(d.v[1].key) # 2 THEN Err("ValueError")
                 ELSE Err("TypeError")
    ELSE LET coords == Coordinates_with_axes(CoordsOf(s), TRUE, axesArg.v, allow_superset, allow_subset)
         IN IF IsErr(coords) THEN coords
            ELSE Space_init(CoordsArg(coords), DictArg(s.ld), NoCoord, NoneArg)

\* optional keyword argument
Opt(v) == [has |-> TRUE, v |-> v]
NoOpt == [has |-> FALSE, v |-> <<>>]

\* Coordinates.reorder_x(x, x_obs, x_axes, func_obs, func_axes) on one row x
Coordinates_reorder_x(c, x, x_obs, x_axes, func_obs, func_axes) ==
    LET x_reorder == x_obs.has \/ x_axes.has
        func_reorder == func_obs.has \/ func_axes.has
        obs_defined == x_obs.has \/ func_obs.has
        axes_defined == x_axes.has \/ func_axes.has
        useObs == obs_defined /\ c.hasObs /\ c.obs # <<>>
        useAxes == axes_defined /\ c.hasAxes /\ c.axes # <<>>
        coord_old == IF useObs THEN (IF x_reorder THEN x_obs.v ELSE c.obs)
                     ELSE (IF x_reorder THEN x_axes.v ELSE c.axes)
        coord_new == IF useObs THEN (IF x_reorder THEN c.obs ELSE func_obs.v)
                     ELSE (IF x_reorder THEN c.axes ELSE func_axes.v)
    IN IF x_reorder = func_reorder THEN Err("ValueError")
       ELSE IF ~useObs /\ ~useAxes THEN Err("ValueError")
       ELSE IF ~(Range(coord_new) \subseteq Range(coord_old)) THEN Err("ValueError")
       ELSE LET ind == reorder_indices(coord_old, coord_new)
            IN IF \E i \in 1..Len(ind) : ind[i] > Len(x) THEN Err("InvalidArgumentError")
               ELSE [type |-> "array", v |-> reorder_seq(x, ind)]

\* the stored bounds in the order of the mapping, not brought into the order of the coords
Space_rect_limits_stacked(s) ==
    LET d == DictItem(s.ld, IF s.hasObs THEN "obs" ELSE "axes")
    IN IF IsErr(d) THEN d
       ELSE [type |-> "rect", lower |-> Flatten([i \in 1..Len(d.v) |-> d.v[i].limit.lower]),
             upper |-> Flatten([i \in 1..Len(d.v) |-> d.v[i].limit.upper])]

\* Space._rect_limits_z
Space_rect_limits_z(s) ==
    LET d == DictItem(s.ld, IF s.hasObs THEN "obs" ELSE "axes")
    IN IF IsErr(d) THEN d
       ELSE LET limits_obs == Flatten([i \in 1..Len(d.v) |-> d.v[i].key])
                lower_stacked == Flatten([i \in 1..Len(d.v) |-> d.v[i].limit.lower])
                upper_stacked == Flatten([i \in 1..Len(d.v) |-> d.v[i].limit.upper])
                lo == IF s.hasObs
                      THEN Coordinates_reorder_x(CoordsOf(s), lower_stacked, Opt(limits_obs), NoOpt, NoOpt, NoOpt)
                      ELSE Coordinates_reorder_x(CoordsOf(s), lower_stacked, NoOpt, Opt(limits_obs), NoOpt, NoOpt)
                up == IF s.hasObs
                      THEN Coordinates_reorder_x(CoordsOf(s), upper_stacked, Opt(limits_obs), NoOpt, NoOpt, NoOpt)
                      ELSE Coordinates_reorder_x(CoordsOf(s), upper_stacked, NoOpt, Opt(limits_obs), NoOpt, NoOpt)
            IN IF IsErr(lo) THEN lo
               ELSE IF IsErr(up) THEN up
               ELSE [type |-> "rect", lower |-> lo.v, upper |-> up.v]

\* Space.rect_limits: (lower, upper), False, or the exception raised
Space_rect_limits(s) ==
    LET h == Space_has_rect_limits(s)
    IN IF h \notin {"True", "False"} THEN Err(h)
       ELSE IF h = "False" THEN [type |-> "False"]
       ELSE Space_rect_limits_z(s)

(***************************************************************************)
(* combine_spaces_new                                                      *)
(***************************************************************************)
\* first exception in a sequence of results, or the fallback value
FirstErr(rs, otherwise) ==
    IF \E i \in 1..Len(rs) : IsErr(rs[i])
    THEN rs[CHOOSE i \in 1..Len(rs) : IsErr(rs[i]) /\ \A j \in 1..(i - 1) : ~IsErr(rs[j])]
    ELSE otherwise

\* first exception name in a sequence of "True"/"False"/exception names, or ""
FirstRaise(bs) ==
    IF \E i \in 1..Len(bs) : bs[i] \notin {"True", "False"}
    THEN bs[CHOOSE i \in 1..Len(bs) : bs[i] \notin {"True", "False"}
                                      /\ \A j \in 1..(i - 1) : bs[j] \in {"True", "False"}]
    ELSE ""

\* union of tuples in order of first appearance
RECURSIVE OrderedUnion(_)
OrderedUnion(ss) ==
    IF ss = <<>> THEN <<>>
    ELSE LET rest == OrderedUnion(SubSeq(ss, 1, Len(ss) - 1))
         IN rest \o FilterIn(ss[Len(ss)], Range(ss[Len(ss)]) \ Range(rest))

\* zfit.core.dimension.common_obs: the union of the inputs' obs, in input order
common_obs(spaces) ==
    OrderedUnion([i \in 1..Len(spaces) |-> IF spaces[i].hasObs THEN spaces[i].obs ELSE <<>>])

\* zfit.core.dimension.common_axes: the union of the inputs' axes, in input order
common_axes(spaces) ==
    OrderedUnion([i \in 1..Len(spaces) |-> IF spaces[i].hasAxes THEN spaces[i].axes ELSE <<>>])

\* get_coord(space, obs_in_use)
get_coord(space, obs_in_use) == IF obs_in_use THEN space.obs ELSE space.axes

\* the generator object appended to limits_coord for the j-th declaring space of the
\* k-th coordinate: `(space._extract_limits(...) for space in space_with_coord)` is
\* never iterated, so what is stored and compared is the generator itself
Generator(k, j) == [type |-> "generator", id |-> <<k, j>>]

\* `limits_coord[0] != limit` on two generator objects: object identity
generator_ne(g1, g2) == g1.id # g2.id

\* the else branch of combine_spaces_new: limits_dict, or LimitsIncompatibleError
combine_limits_dict(spaces, all_coords, using_obs) ==
    LET space_with_coord(k) ==
            {i \in 1..Len(spaces) : all_coords[k] \in Range(get_coord(spaces[i], using_obs))}
        limits_coord(k) == [j \in 1..Cardinality(space_with_coord(k)) |-> Generator(k, j)]
        any_non_equal(k) ==
            \E j \in 2..Len(limits_coord(k)) : generator_ne(limits_coord(k)[1], limits_coord(k)[j])
        entries == [k \in 1..Len(all_coords) |->
                       [key |-> <<all_coords[k]>>, scalar |-> TRUE, limit |-> limits_coord(k)[1]]]
    IN IF \E k \in 1..Len(all_coords) : any_non_equal(k) THEN Err("LimitsIncompatibleError")
       ELSE DictArg([EmptyDict EXCEPT !.hasObs = using_obs,
                                      !.obs = IF using_obs THEN entries ELSE <<>>,
                                      !.hasAxes = ~using_obs,
                                      !.axes = IF using_obs THEN <<>> ELSE entries])

\* combine_spaces_new from the limits checks on, given the reordered spaces
combine_limits(spaces, all_obs, all_axes) ==
    LET using_obs == all_obs # <<>>
        all_coords == IF using_obs THEN all_obs ELSE all_axes
        idx == 1..Len(spaces)
        false_ == [i \in idx |-> Space_limits_are_false(spaces[i])]
        not_set == [i \in idx |-> Space_limits_not_set(spaces[i])]
        has_limits == [i \in idx |-> Space_has_limits(spaces[i])]
        raised == FirstRaise(false_ \o not_set \o has_limits)
        limits == IF \A i \in idx : false_[i] = "True" THEN FalseArg
                  ELSE IF \A i \in idx : not_set[i] = "True" THEN NoneArg
                  ELSE IF ~(\A i \in idx : has_limits[i] = "True") THEN Err("LimitsIncompatibleError")
                  ELSE combine_limits_dict(spaces, all_coords, using_obs)
    IN IF \E i \in idx : IsErr(spaces[i]) THEN FirstErr(spaces, NoRes)
       ELSE IF raised # "" THEN Err(raised)
       ELSE IF limits.k = "Error" THEN Err(limits.err)
       ELSE Space_init(IF using_obs THEN TupleCoord(all_obs) ELSE NoCoord, limits,
                       IF all_axes # <<>> THEN TupleCoord(all_axes) ELSE NoCoord, NoneArg)

\* combine_spaces_new(spaces...)
combine_spaces_new(spaces0) ==
    LET all_obs == common_obs(spaces0)
        all_axes == common_axes(spaces0)
        using_obs == all_obs # <<>>
    IN IF ~using_obs /\ all_axes = <<>> THEN Err("CoordinatesUnderdefinedError")
       ELSE combine_limits(
                [i \in 1..Len(spaces0) |->
                    IF using_obs THEN Space_with_obs(spaces0[i], TupleCoord(all_obs), TRUE, FALSE)
                    ELSE Space_with_axes(spaces0[i], TupleCoord(all_axes), TRUE, FALSE)],
                all_obs, all_axes)

(***************************************************************************)
(* MultiSpace and add_spaces_new                                           *)
(***************************************************************************)
\* flatten_spaces: a Space iterates to itself, a MultiSpace to its alternatives
flatten_spaces(spaces) ==
    Flatten([i \in 1..Len(spaces) |->
                IF spaces[i].type = "MultiSpace" THEN spaces[i].spaces ELSE <<spaces[i]>>])

\* all(space.has_limits for space in spaces) / any(...): a generator, consumed left to
\* right up to the first deciding element; "True", "False" or the exception it meets
RECURSIVE AllGen(_)
AllGen(bs) ==
    IF bs = <<>> THEN "True"
    ELSE IF Head(bs) = "True" THEN AllGen(Tail(bs))
    ELSE Head(bs)

RECURSIVE AnyGen(_)
AnyGen(bs) ==
    IF bs = <<>> THEN "False"
    ELSE IF Head(bs) = "False" THEN AnyGen(Tail(bs))
    ELSE Head(bs)

\* the limits check at the end of MultiSpace._check_convert_input_spaces_obs_axes
MultiSpace_check_limits(spaces) ==
    LET has_limits == [i \in 1..Len(spaces) |-> Space_has_limits(spaces[i])]
        all_ == AllGen(has_limits)
        any_ == AnyGen(has_limits)
    IN IF all_ \notin {"True", "False"} THEN Err(all_)
       ELSE IF all_ = "True" THEN [type |-> "spaces", v |-> spaces]
       ELSE IF any_ \notin {"True", "False"} THEN Err(any_)
       ELSE IF any_ = "False" THEN [type |-> "spaces", v |-> <<spaces[1]>>]
       ELSE Err("LimitsIncompatibleError")

\* a list built by a comprehension: the list, or the first exception met while building it
Built(rs) == FirstErr(rs, [type |-> "spaces", v |-> rs])

\* `if not (all_have_axes and all(space.axes == axes ...))`: the spaces after with_obs,
\* with their axes dropped when these do not coincide
MultiSpace_drop_axes(reobs, all_have_axes, axes) ==
    IF \E i \in 1..Len(reobs) : IsErr(reobs[i]) THEN FirstErr(reobs, NoRes)
    ELSE IF all_have_axes /\ \A i \in 1..Len(reobs) : reobs[i].axes = axes.v
    THEN [type |-> "spaces", v |-> reobs]
    ELSE Built([i \in 1..Len(reobs) |-> Space_with_axes(reobs[i], NoCoord, FALSE, FALSE)])

\* the end of MultiSpace._check_convert_input_spaces_obs_axes: limits check and return
MultiSpace_checked(spaces, obs, axes) ==
    IF IsErr(spaces) THEN spaces
    ELSE LET checked == MultiSpace_check_limits(spaces.v)
         IN IF IsErr(checked) THEN checked
            ELSE [type |-> "checked", spaces |-> checked.v, obs |-> obs, axes |-> axes]

\* MultiSpace._check_convert_input_spaces_obs_axes(spaces, obs, axes):
\* the alternatives, obs and axes, or the exception raised
MultiSpace_check_convert_input_spaces_obs_axes(spaces0, obsArg, axesArg) ==
    LET flat == flatten_spaces(spaces0)
        idx == 1..Len(flat)
        all_have_obs == \A i \in idx : flat[i].hasObs
        all_have_axes == \A i \in idx : flat[i].hasAxes
        axes == IF all_have_axes /\ axesArg.k = "None" THEN TupleCoord(flat[1].axes) ELSE axesArg
        obs == IF all_have_obs /\ obsArg.k = "None" THEN TupleCoord(flat[1].obs) ELSE obsArg
    IN MultiSpace_checked(
           IF all_have_obs
           THEN MultiSpace_drop_axes([i \in idx |-> Space_with_obs(flat[i], obs, FALSE, FALSE)],
                                     all_have_axes, axes)
           ELSE IF all_have_axes
           THEN IF \A i \in idx : ~flat[i].hasObs
                THEN Built([i \in idx |-> Space_with_axes(flat[i], axes, FALSE, FALSE)])
                ELSE [type |-> "spaces", v |-> flat]
           ELSE Err("SpaceIncompatibleError"),
           obs, axes)

\* MultiSpace.__init__ on the checked alternatives c: the sole alternative, or a
\* MultiSpace over them
MultiSpace_init(c) ==
    IF IsErr(c) THEN c
    ELSE IF Len(c.spaces) = 1 THEN c.spaces[1]
    ELSE LET coords == BaseSpace_init(c.obs, c.axes)
         IN IF IsErr(coords) THEN coords
            ELSE [type |-> "MultiSpace", hasObs |-> coords.hasObs, obs |-> coords.obs,
                  hasAxes |-> coords.hasAxes, axes |-> coords.axes, n_obs |-> coords.n_obs,
                  spaces |-> c.spaces]

\* MultiSpace.__new__ and __init__
MultiSpace_new(spaces0, obsArg, axesArg) ==
    MultiSpace_init(MultiSpace_check_convert_input_spaces_obs_axes(spaces0, obsArg, axesArg))

\* add_spaces_new(spaces...)
add_spaces_new(spaces) == MultiSpace_new(spaces, NoCoord, NoCoord)

(***************************************************************************)
(* inside                                                                  *)
(***************************************************************************)
\* the predicate objects: what the callable f answers for one row x
LimitFn(f, x) == (x[1] + f) % 2 = 0

\* inside_rect_limits on one row
inside_rect_limits(x, lower, upper) ==
    (\A i \in 1..Len(x) : x[i] >= lower[i]) /\ (\A i \in 1..Len(x) : x[i] <= upper[i])

\* Limit.inside(x, guarantee_limits) on one row
Limit_inside(l, x, guarantee_limits) ==
    IF Len(x) # l.n_obs THEN "ShapeIncompatibleError"
    ELSE IF guarantee_limits /\ Limit_has_rect_limits(l) THEN "True"
    ELSE IF Limit_has_rect_limits(l)
         THEN (IF inside_rect_limits(x, l.lower, l.upper) THEN "True" ELSE "False")
    ELSE IF l.limit_fn \in {FnNone, FnFalse} THEN "TypeError"
    ELSE (IF LimitFn(l.limit_fn, x) THEN "True" ELSE "False")

\* Space._inside on one row: every stored limit on its own columns of x
Space__inside(s, x) ==
    LET d == DictItem(s.ld, IF s.hasObs THEN "obs" ELSE "axes")
        x_sub(e) == IF s.hasObs
                    THEN Coordinates_reorder_x(CoordsOf(s), x, NoOpt, NoOpt, Opt(e.key), NoOpt)
                    ELSE Coordinates_reorder_x(CoordsOf(s), x, NoOpt, NoOpt, NoOpt, Opt(e.key))
        one(e) == IF IsErr(x_sub(e)) THEN x_sub(e).err
                  ELSE IF e.limit.type # "Limit" THEN "AttributeError"
                  ELSE Limit_inside(e.limit, x_sub(e).v, FALSE)
    IN IF IsErr(d) THEN d.err
       ELSE LET xs_inside == [i \in 1..Len(d.v) |-> one(d.v[i])]
            IN IF FirstRaise(xs_inside) # "" THEN FirstRaise(xs_inside)
               ELSE IF xs_inside = <<>> THEN "InvalidArgumentError"
               ELSE IF \A i \in 1..Len(xs_inside) : xs_inside[i] = "True" THEN "True" ELSE "False"

\* BaseSpace.inside on a Space
Space_inside(s, x, guarantee_limits) ==
    LET h == Space_has_rect_limits(s)
    IN IF Len(x) # s.n_obs THEN "ShapeIncompatibleError"
       ELSE IF h \notin {"True", "False"} THEN h
       ELSE IF h = "True" /\ guarantee_limits THEN "True"
       ELSE Space__inside(s, x)

\* MultiSpace.has_rect_limits
MultiSpace_has_rect_limits(m) ==
    AllGen([i \in 1..Len(m.spaces) |-> Space_has_rect_limits(m.spaces[i])])

\* MultiSpace._inside on one row: inside any alternative
MultiSpace__inside(m, x, guarantee_limits) ==
    LET inside_limits == [i \in 1..Len(m.spaces) |-> Space_inside(m.spaces[i], x, guarantee_limits)]
    IN IF FirstRaise(inside_limits) # "" THEN FirstRaise(inside_limits)
       ELSE IF \E i \in 1..Len(inside_limits) : inside_limits[i] = "True" THEN "True" ELSE "False"

\* BaseSpace.inside on a Space or a MultiSpace
inside(s, x, guarantee_limits) ==
    IF s.type = "Space" THEN Space_inside(s, x, guarantee_limits)
    ELSE LET h == MultiSpace_has_rect_limits(s)
         IN IF Len(x) # s.n_obs THEN "ShapeIncompatibleError"
            ELSE IF h \notin {"True", "False"} THEN h
            ELSE IF h = "True" /\ guarantee_limits THEN "True"
            ELSE MultiSpace__inside(s, x, guarantee_limits)

(***************************************************************************)
(* Inputs                                                                  *)
(***************************************************************************)
Names == {"x", "y", "z"}

\* obs tuples / axes tuples of at most n dimensions
ObsTuples(n) == Tuples(Names, n)
AxesTuples(n) == Tuples(0..(n - 1), n)

\* boxes over n dimensions with lower < upper in every dimension
Boxes(n) == {BoxArg(lo, up) : <<lo, up>> \in
                {b \in [1..n -> 0..MaxVal] \X [1..n -> 1..(MaxVal + 1)] :
                    \A i \in 1..n : b[1][i] < b[2][i]}}

AllBoxes == UNION {Boxes(n) : n \in 1..MaxDim}

Fns == {FnArg(f) : f \in 1..NFn}

(***************************************************************************)
(* Construction: Space(obs, limits, axes, rect_limits)                     *)
(***************************************************************************)
\* the arguments a caller may give to Space(...)
CtorArgs ==
    {[obs |-> o, limits |-> l, axes |-> a, rect_limits |-> r] :
        o \in {NoCoord} \cup {TupleCoord(t) : t \in ObsTuples(MaxDim)},
        a \in {NoCoord} \cup {TupleCoord(t) : t \in AxesTuples(MaxDim)},
        l \in {NoneArg, FalseArg} \cup AllBoxes \cup Fns,
        r \in {NoneArg, FalseArg} \cup AllBoxes}

InitCtor ==
    /\ op = "init"
    /\ args \in CtorArgs
    /\ res = NoRes

Construct ==
    /\ op = "init"
    /\ op' = "Space"
    /\ args' = args
    /\ res' = Space_init(args.obs, args.limits, args.axes, args.rect_limits)

NextCtor == Construct

SpecCtor == InitCtor /\ [][NextCtor]_vars

Constructed == op = "Space" /\ res.type = "Space"

\* C1: the three limit states of a Space are never conflated: built with limits=None and
\* rect_limits=None it reports limits_not_set and not limits_are_false; built with
\* limits=False it reports limits_are_false and not limits_not_set; built with a box it
\* reports has_limits and neither of the other two.
C1_ThreeStatesNotConflated ==
    Constructed =>
        /\ (args.limits.k = "None" /\ args.rect_limits.k = "None")
              => (Space_limits_not_set(res) = "True" /\ Space_limits_are_false(res) = "False")
        /\ (args.limits.k = "False" /\ args.rect_limits.k \in {"None", "False"})
              => (Space_limits_are_false(res) = "True" /\ Space_limits_not_set(res) = "False")
        /\ (args.limits.k = "box" /\ args.rect_limits.k = "None")
              => (Space_has_limits(res) = "True" /\ Space_limits_not_set(res) = "False"
                  /\ Space_limits_are_false(res) = "False")

(***************************************************************************)
(* Combination: combine_spaces_new(a, b)                                   *)
(***************************************************************************)
\* the limits a caller may give for n dimensions: None, False, a box, a predicate
\* with its bounding box
LimitArgs(n) ==
    {<<l, NoneArg>> : l \in {NoneArg, FalseArg} \cup Boxes(n)}
    \cup {<<f, b>> : f \in Fns, b \in Boxes(n)}

\* the arguments of a Space
SpaceArgs(o, l, a, r) == [obs |-> o, limits |-> l, axes |-> a, rect_limits |-> r]

\* the Space built from arguments
Build(a) == Space_init(a.obs, a.limits, a.axes, a.rect_limits)

\* Spaces over names only
ObsSpaces ==
    UNION {{SpaceArgs(TupleCoord(t), lr[1], NoCoord, lr[2]) : lr \in LimitArgs(Len(t))} :
              t \in ObsTuples(MaxDim)}

\* Spaces over positions only, without predicates
AxesSpaces ==
    UNION {{SpaceArgs(NoCoord, l, TupleCoord(t), NoneArg) :
               l \in {NoneArg, FalseArg} \cup Boxes(Len(t))} : t \in AxesTuples(MaxDim)}

InitCombine ==
    /\ op = "init"
    /\ args \in (ObsSpaces \X ObsSpaces) \cup (AxesSpaces \X AxesSpaces)
    /\ res = NoRes

Combine ==
    /\ op = "init"
    /\ op' = "combine"
    /\ args' = args
    /\ res' = combine_spaces_new(<<Build(args[1]), Build(args[2])>>)

NextCombine == Combine

SpecCombine == InitCombine /\ [][NextCombine]_vars

\* the limit state a Space was built with, read off the Limits it stores:
\* "unset" (limits=None), "false" (limits=False) or "set" (a box, or a predicate with its box)
BuiltState(s) ==
    LET d == IF s.hasObs THEN s.ld.obs ELSE s.ld.axes
    IN IF \A i \in 1..Len(d) : d[i].limit.type = "Limit" /\ d[i].limit.rect = "None" THEN "unset"
       ELSE IF \A i \in 1..Len(d) : d[i].limit.type = "Limit" /\ d[i].limit.rect = "False" THEN "false"
       ELSE "set"

A == Build(args[1])
B == Build(args[2])

Combined == op = "combine"

\* C2: combining rectangular Spaces over disjoint dimensions gives a Space whose obs is
\* the concatenation of the inputs' obs and whose rect_lower / rect_upper hold each
\* input's bounds at its dimensions' positions.
C2_CombineDisjointRect ==
    (Combined /\ A.hasObs /\ B.hasObs /\ Range(A.obs) \cap Range(B.obs) = {}
        /\ Space_has_rect_limits(A) = "True" /\ Space_has_rect_limits(B) = "True")
    => /\ res.type = "Space"
       /\ res.obs = A.obs \o B.obs
       /\ Space_rect_limits(res) =
             [type |-> "rect",
              lower |-> Space_rect_limits(A).lower \o Space_rect_limits(B).lower,
              upper |-> Space_rect_limits(A).upper \o Space_rect_limits(B).upper]

Raised(e) == res.type = "Error" /\ res.err = e

\* the Limit a Space stores for dimension d, with the dimensions it is stored under
LimitOn(s, d) ==
    LET e == IF s.hasObs THEN s.ld.obs ELSE s.ld.axes
        i == CHOOSE j \in 1..Len(e) : d \in Range(e[j].key)
    IN [dims |-> e[i].key, limit |-> e[i].limit]

\* the bounds (of the box, or of the bounding box of a predicate) a Space has on d
BoundsOn(s, d) ==
    LET l == LimitOn(s, d)
    IN <<l.limit.lower[IndexOf(l.dims, d)], l.limit.upper[IndexOf(l.dims, d)]>>

SharedDims == Range(A.obs) \cap Range(B.obs)

\* C3: combining two Spaces that both define the same dimension with differing bounds
\* raises LimitsIncompatibleError.
C3_CombineDifferingBoundsRaises ==
    (Combined /\ A.hasObs /\ BuiltState(A) = "set" /\ BuiltState(B) = "set"
        /\ \E d \in SharedDims : BoundsOn(A, d) # BoundsOn(B, d))
    => Raised("LimitsIncompatibleError")

\* C4: when every input declaring a shared dimension has an identical Limit there, the
\* combination succeeds and the result carries that Limit for the dimension.
C4_CombineIdenticalLimitsSucceeds ==
    (Combined /\ A.hasObs /\ BuiltState(A) = "set" /\ BuiltState(B) = "set"
        /\ SharedDims # {} /\ \A d \in SharedDims : LimitOn(A, d) = LimitOn(B, d))
    => /\ res.type = "Space"
       /\ \A d \in SharedDims :
             \E i \in 1..Len(res.ld.obs) :
                 d \in Range(res.ld.obs[i].key) /\ res.ld.obs[i].limit = LimitOn(A, d).limit

\* C5: combining inputs of which one has limits set and another has them unset or False
\* fails with LimitsIncompatibleError.
C5_CombineMixedDefinednessRaises ==
    (Combined /\ A.hasObs /\ "set" \in {BuiltState(A), BuiltState(B)}
        /\ {BuiltState(A), BuiltState(B)} # {"set"})
    => Raised("LimitsIncompatibleError")

\* C6: combining Spaces that all have unset limits gives a Space reporting limits_not_set
\* and not limits_are_false; combining Spaces that all have limits False gives a Space
\* reporting limits_are_false and not limits_not_set.
C6_CombineKeepsUnsetAndFalse ==
    (Combined /\ A.hasObs)
    => /\ (BuiltState(A) = "unset" /\ BuiltState(B) = "unset")
             => (res.type = "Space" /\ Space_limits_not_set(res) = "True"
                 /\ Space_limits_are_false(res) = "False")
       /\ (BuiltState(A) = "false" /\ BuiltState(B) = "false")
             => (res.type = "Space" /\ Space_limits_are_false(res) = "True"
                 /\ Space_limits_not_set(res) = "False")

(***************************************************************************)
(* Union: add_spaces_new(a, b)                                             *)
(***************************************************************************)
\* Spaces over names and positions, without predicates
BothSpaces ==
    UNION {{SpaceArgs(TupleCoord(ta[1]), l, TupleCoord(ta[2]), NoneArg) :
               l \in {NoneArg, FalseArg} \cup Boxes(Len(ta[1]))} :
              ta \in {p \in Tuples({"x", "y"}, MaxDim) \X AxesTuples(MaxDim) : Len(p[1]) = Len(p[2])}}

AddSpaces == ObsSpaces \cup AxesSpaces \cup BothSpaces

InitAdd ==
    /\ op = "init"
    /\ args \in AddSpaces \X AddSpaces
    /\ res = NoRes

Add ==
    /\ op = "init"
    /\ op' = "add"
    /\ args' = args
    /\ res' = add_spaces_new(<<Build(args[1]), Build(args[2])>>)

NextAdd == Add

SpecAdd == InitAdd /\ [][NextAdd]_vars

Added == op = "add"

\* the rows a Space over n dimensions is asked about
Points(n) == [1..n -> 0..(MaxVal + 1)]

\* C7: for A and B with identical obs and set limits, add_spaces_new(A, B) is a MultiSpace
\* M with M.inside(x) true exactly when A.inside(x) or B.inside(x) is true.
C7_AddInsideIsOr ==
    (Added /\ A.hasObs /\ B.hasObs /\ A.obs = B.obs
        /\ BuiltState(A) = "set" /\ BuiltState(B) = "set")
    => /\ res.type = "MultiSpace"
       /\ \A x \in Points(A.n_obs) :
             (inside(res, x, FALSE) = "True")
                 <=> (inside(A, x, FALSE) = "True" \/ inside(B, x, FALSE) = "True")

\* C8: add_spaces_new(A, A) returns the single Space A, not a MultiSpace of two alternatives.
C8_AddSelfCollapses ==
    (Added /\ A = B) => (res.type = "Space" /\ res = A)

\* the inputs name the same dimensions in the same order
SameDims == A.hasObs = B.hasObs /\ A.obs = B.obs /\ A.hasAxes = B.hasAxes /\ A.axes = B.axes

\* C9: a MultiSpace built from alternatives of which some have limits set and some do not
\* raises LimitsIncompatibleError; no MultiSpace and no collapsed Space is returned.
C9_AddMixedDefinednessRaises ==
    (Added /\ SameDims /\ "set" \in {BuiltState(A), BuiltState(B)}
        /\ {BuiltState(A), BuiltState(B)} # {"set"})
    => Raised("LimitsIncompatibleError")

ShareObsSet == A.hasObs /\ B.hasObs /\ Range(A.obs) = Range(B.obs)
ShareAxesSet == A.hasAxes /\ B.hasAxes /\ Range(A.axes) = Range(B.axes)

\* C10: every alternative of a constructed MultiSpace has the obs tuple and the axes
\* tuple of the MultiSpace itself, and inputs sharing neither a common obs set nor a
\* common axes set are rejected with SpaceIncompatibleError.
C10_MultiSpaceCommonDims ==
    Added =>
        /\ res.type = "MultiSpace" =>
              \A i \in 1..Len(res.spaces) :
                  /\ res.spaces[i].hasObs = res.hasObs /\ res.spaces[i].obs = res.obs
                  /\ res.spaces[i].hasAxes = res.hasAxes /\ res.spaces[i].axes = res.axes
        /\ (~ShareObsSet /\ ~ShareAxesSet) => Raised("SpaceIncompatibleError")

(***************************************************************************)
(* Space.get_subspace                                                      *)
(***************************************************************************)
\* dimensions of the Spaces that subspaces are taken of
SubDim == 3

\* sorted(limit_dict, key=lambda x: len(x[0]), reverse=True): longest key first, keys of
\* the same length in their stored order
keys_sorted(entries) ==
    LET lens == {Len(entries[i].key) : i \in 1..Len(entries)}
        m == IF lens = {} THEN 0 ELSE CHOOSE n \in lens : \A k \in lens : k <= n
    IN Flatten([j \in 1..m |-> SelectSeq(entries, LAMBDA e : Len(e.key) = m + 1 - j)])

\* limit.get_subspace(obs=coord_limit) / (axes=coord_limit): the Limit carved to some of
\* its dimensions; a predicate cannot be carved.  What is stored may be no Limit at all.
Limit_get_subspace(l, key, coord_limit) ==
    IF l.type # "Limit" THEN Err("AttributeError")
    ELSE IF ~Limit_has_rect_limits(l) THEN Err("InvalidLimitSubspaceError")
    ELSE Limit_check_convert_input_limits(
             NoneArg,
             BoxArg([i \in 1..Len(coord_limit) |-> l.lower[IndexOf(key, coord_limit[i])]],
                    [i \in 1..Len(coord_limit) |-> l.upper[IndexOf(key, coord_limit[i])]]),
             Len(coord_limit))

\* the partially overlapping key of Space._extract_limits: the carved sub-limit is to be
\* stored under limit.obs / limit.axes, which no Limit has
extract_sublimit(e, coord_intersec) ==
    LET sublimit == Limit_get_subspace(e.limit, e.key, FilterIn(e.key, coord_intersec))
    IN IF IsErr(sublimit) THEN sublimit ELSE Err("AttributeError")

\* limits_to_eval with one more key stored in front of what the rest of the loop stores
with_entry(e, rest) ==
    IF IsErr(rest) THEN rest ELSE [type |-> "entries", v |-> <<e>> \o rest.v]

\* the loop with a partially overlapping key passed over instead of carved
RECURSIVE extract_loop_skipping(_, _)
extract_loop_skipping(entries, coords_to_extract) ==
    IF entries = <<>> THEN [type |-> "entries", v |-> <<>>]
    ELSE IF Range(Head(entries).key) \subseteq coords_to_extract
    THEN with_entry(Head(entries), extract_loop_skipping(Tail(entries), coords_to_extract))
    ELSE extract_loop_skipping(Tail(entries), coords_to_extract)

\* the loop of Space._extract_limits over keys_sorted
RECURSIVE extract_loop(_, _)
extract_loop(entries, coords_to_extract) ==
    IF entries = <<>> THEN [type |-> "entries", v |-> <<>>]
    ELSE IF Range(Head(entries).key) \cap coords_to_extract = {}
    THEN extract_loop(Tail(entries), coords_to_extract)
    ELSE IF Range(Head(entries).key) \subseteq coords_to_extract
    THEN with_entry(Head(entries), extract_loop(Tail(entries), coords_to_extract))
    ELSE extract_sublimit(Head(entries), Range(Head(entries).key) \cap coords_to_extract)

\* the entries of self._limits_dict[scheme] as Space._extract_limits sorts and walks them
extract_entries(d, scheme, coords) ==
    IF IsErr(d) THEN d
    \* len(key) of a bare position
    ELSE IF scheme = "axes" /\ \E i \in 1..Len(d.v) : d.v[i].scalar THEN Err("TypeError")
    ELSE extract_loop(keys_sorted(d.v), Range(coords))

\* Space._extract_limits(obs, axes): the mapping {key: Limit} for the requested dimensions
Space_extract_limits(s, obsArg, axesArg) ==
    IF obsArg.k = "None" /\ axesArg.k = "None" THEN Err("ValueError")
    ELSE IF obsArg.k # "None" THEN extract_entries(DictItem(s.ld, "obs"), "obs", obsArg.v)
    ELSE extract_entries(DictItem(s.ld, "axes"), "axes", axesArg.v)

\* type(self)(obs=new_coords, limits=limits_dict) at the end of Space.get_subspace
subspace_of(limits_dict, scheme, new_coords) ==
    IF IsErr(limits_dict) THEN limits_dict
    ELSE IF IsErr(new_coords) THEN new_coords
    ELSE Space_init(CoordsArg(new_coords), DictArg(StrayDict(scheme, limits_dict.v)),
                    NoCoord, NoneArg)

\* Space.get_subspace(obs, axes)
Space_get_subspace(s, obsArg, axesArg) ==
    IF obsArg.k # "None" /\ axesArg.k # "None" THEN Err("ValueError")
    ELSE IF obsArg.k = "None" /\ axesArg.k = "None" THEN Err("ValueError")
    ELSE IF obsArg.k # "None"
    THEN subspace_of(Space_extract_limits(s, obsArg, NoCoord), "obs",
                     Coordinates_with_obs(CoordsOf(s), TRUE, obsArg.v, FALSE, TRUE))
    ELSE subspace_of(Space_extract_limits(s, NoCoord, axesArg), "axes",
                     Coordinates_with_axes(CoordsOf(s), TRUE, axesArg.v, FALSE, TRUE))

\* Spaces over up to SubDim names
SubSpaces ==
    UNION {{SpaceArgs(TupleCoord(t), lr[1], NoCoord, lr[2]) : lr \in LimitArgs(Len(t))} :
              t \in ObsTuples(SubDim)}

\* the obs / axes asked of get_subspace
SubRequests ==
    {<<TupleCoord(t), NoCoord>> : t \in ObsTuples(SubDim)}
    \cup {<<NoCoord, TupleCoord(t)>> : t \in AxesTuples(MaxDim)}
    \cup {<<NoCoord, NoCoord>>, <<TupleCoord(<<"x">>), TupleCoord(<<0>>)>>}

InitSub ==
    /\ op = "init"
    /\ args \in {[space |-> sp, obs |-> r[1], axes |-> r[2]] :
                    sp \in SubSpaces \cup AxesSpaces, r \in SubRequests}
    /\ res = NoRes

GetSubspace ==
    /\ op = "init"
    /\ op' = "get_subspace"
    /\ args' = args
    /\ res' = Space_get_subspace(Build(args.space), args.obs, args.axes)

NextSub == GetSubspace

SpecSub == InitSub /\ [][NextSub]_vars

\* the Space get_subspace was called on
S == Build(args.space)

Subspaced == op = "get_subspace"

\* one dimension of S is asked for by name
OneObsAsked ==
    /\ S.hasObs
    /\ args.axes.k = "None" /\ args.obs.k = "tuple"
    /\ Len(args.obs.v) = 1 /\ args.obs.v[1] \in Range(S.obs)

\* C11: for a rectangular Space over ('x','y','z') built from one box, get_subspace(obs=[d])
\* is a Space with n_obs = 1, obs = (d,), has_rect_limits true and rect_lower / rect_upper
\* equal to the original's bounds of dimension d.
C11_SubspaceOfBox ==
    (Subspaced /\ OneObsAsked /\ S.n_obs = 3 /\ args.space.limits.k = "box")
    => /\ res.type = "Space"
       /\ res.n_obs = 1
       /\ res.obs = args.obs.v
       /\ Space_has_rect_limits(res) = "True"
       /\ Space_rect_limits(res) =
             [type |-> "rect",
              lower |-> <<Space_rect_limits(S).lower[IndexOf(S.obs, args.obs.v[1])]>>,
              upper |-> <<Space_rect_limits(S).upper[IndexOf(S.obs, args.obs.v[1])]>>]

\* the request names dimensions in the scheme S is addressed by, obs or axes and not both
Asked ==
    IF args.obs.k = "tuple" /\ args.axes.k = "None" /\ S.hasObs THEN args.obs.v
    ELSE IF args.axes.k = "tuple" /\ args.obs.k = "None" /\ ~S.hasObs THEN args.axes.v
    ELSE <<>>

\* what S stores, and what the result stores, in that scheme
Stored == IF S.hasObs THEN S.ld.obs ELSE S.ld.axes
Taken == IF S.hasObs THEN res.ld.strayObs ELSE res.ld.strayAxes

\* a stored key of several dimensions under a predicate, of which some but not all are asked
PredicateKeyCarved ==
    \E i \in 1..Len(Stored) :
        /\ Len(Stored[i].key) > 1
        /\ Stored[i].limit.limit_fn > 0
        /\ Range(Stored[i].key) \cap Range(Asked) # {}
        /\ ~(Range(Stored[i].key) \subseteq Range(Asked))

PyBool(b) == IF b \in {"True", "False"} THEN [type |-> "bool", v |-> b] ELSE Err(b)

\* the end of Space.with_coords: the reordering by obs and the one by axes have to agree
with_coords_of(new_space_obs, new_space_axes) ==
    IF IsErr(new_space_obs) THEN new_space_obs
    ELSE IF IsErr(new_space_axes) THEN new_space_axes
    ELSE IF new_space_obs.type = "Space" /\ new_space_axes.type = "Space"
            /\ (new_space_obs.axes # new_space_axes.axes \/ new_space_obs.obs # new_space_axes.obs)
    THEN Err("CoordinatesIncompatibleError")
    ELSE IF new_space_axes.type = "Space" THEN new_space_axes
    ELSE IF new_space_obs.type = "Space" THEN new_space_obs
    ELSE Err("CoordinatesIncompatibleError")

\* Space.with_coords(coords, allow_superset, allow_subset)
Space_with_coords(s, coords, allow_superset, allow_subset) ==
    with_coords_of(
        IF s.hasObs /\ coords.hasObs
        THEN Space_with_obs(s, TupleCoord(coords.obs), allow_superset, allow_subset) ELSE NoRes,
        IF s.hasAxes /\ coords.hasAxes
        THEN Space_with_axes(s, TupleCoord(coords.axes), allow_superset, allow_subset) ELSE NoRes)

\* len(space): the number of Spaces it iterates to
space_len(s) == IF s.type = "MultiSpace" THEN Len(s.spaces) ELSE 1

\* the loops of compare_limits_multispace: the first pair compared reads
\* `space22._limits_dic`, an attribute no Space has
compare_limits_loop(space1, space2_reordered) ==
    IF IsErr(space2_reordered) THEN space2_reordered.err
    ELSE "AttributeError"

\* compare_limits_multispace(space1, space2, comparator)
compare_limits_multispace(space1, space2) ==
    IF space_len(space1) # space_len(space2) THEN "False"
    ELSE compare_limits_loop(space1, Space_with_coords(space2, CoordsOf(space1), FALSE, TRUE))

\* the limits check of compare_multispace, on space1.limits and space2.limits
\* (Space.limits is rect_limits: a pair of bounds or False, never None)
compare_limits_state(limits1, limits2, space1, space2) ==
    IF IsErr(limits1) THEN limits1.err
    ELSE IF limits1.type = "False"
    THEN IF IsErr(limits2) THEN limits2.err
         ELSE IF limits2.type = "False" THEN "True" ELSE "False"
    ELSE compare_limits_multispace(space1, space2)

\* compare_multispace(space1, space2, comparator): "True", "False" or the exception raised
compare_multispace(space1, space2) ==
    IF ~((space1.hasAxes /\ space2.hasAxes) \/ (space1.hasObs /\ space2.hasObs)) THEN "False"
    ELSE IF space1.hasAxes /\ space2.hasAxes /\ Range(space1.axes) # Range(space2.axes) THEN "False"
    ELSE IF space1.hasObs /\ space2.hasObs /\ Range(space1.obs) # Range(space2.obs) THEN "False"
    ELSE compare_limits_state(Space_rect_limits(space1), Space_rect_limits(space2), space1, space2)

\* equal_space(space1, space2, allow_graph)
equal_space(space1, space2) == compare_multispace(space1, space2)

\* BaseSpace.__eq__ (the later definition in the class body, which is the one in effect)
BaseSpace_eq(self, other) == PyBool(equal_space(self, other))

\* BaseSpace.equal(other, allow_graph): calls equal_space(other, allow_graph=allow_graph),
\* which lacks the second Space
BaseSpace_equal(self, other) == Err("TypeError")

InitEq ==
    /\ op = "init"
    /\ args \in AddSpaces \X AddSpaces
    /\ res = NoRes

\* s1 == s2
Eq ==
    /\ op = "init"
    /\ op' = "eq"
    /\ args' = args
    /\ res' = BaseSpace_eq(Build(args[1]), Build(args[2]))

\* s1.equal(s2, allow_graph)
Equal ==
    /\ op = "init"
    /\ op' = "equal"
    /\ args' = args
    /\ res' = BaseSpace_equal(Build(args[1]), Build(args[2]))

NextEq == Eq \/ Equal

SpecEq == InitEq /\ [][NextEq]_vars

Compared == op \in {"eq", "equal"}

\* both Spaces are over the same set of obs and have set rectangular limits
BothRectSameObs ==
    /\ A.hasObs /\ B.hasObs /\ Range(A.obs) = Range(B.obs)
    /\ A.hasAxes = B.hasAxes /\ Range(A.axes) = Range(B.axes)
    /\ args[1].limits.k = "box" /\ args[2].limits.k = "box"

\* C13: for two Spaces over the same obs set with set rectangular limits, s1 == s2 and
\* s1.equal(s2) are true exactly when the two have the same bounds on every dimension,
\* whatever the order of obs.
C13_SpaceEqualityBySublimits ==
    (Compared /\ BothRectSameObs)
    => /\ res.type = "bool"
       /\ res.v = "True" <=> \A d \in Range(A.obs) : BoundsOn(A, d) = BoundsOn(B, d)

(***************************************************************************)
(* Coordinates: construction, with_obs, with_axes, with_autofill_axes,     *)
(* get_reorder_indices and ==                                              *)
(***************************************************************************)
\* all sequences over elems of length 1..n, repeated elements included
Seqs(elems, n) == UNION {[1..k -> elems] : k \in 1..n}

\* Coordinates.with_autofill_axes(overwrite)
Coordinates_with_autofill_axes(c, overwrite) ==
    IF c.hasAxes /\ c.axes # <<>> /\ ~overwrite THEN Err("ValueError")
    ELSE Coordinates_check_convert_obs_axes(c.hasObs, c.obs, TRUE, [i \in 1..c.n_obs |-> i - 1])

\* Coordinates.__eq__
Coordinates_eq(self, other) ==
    \/ self.hasObs /\ other.hasObs /\ Range(self.obs) = Range(other.obs)
    \/ self.hasAxes /\ other.hasAxes /\ Range(self.axes) = Range(other.axes)

\* an optional tuple given as argument: None, or one of the tuples ts
OptTuples(ts) == {NoOpt} \cup {Opt(t) : t \in ts}

ObsInputs == OptTuples(Seqs(Names, MaxDim))
AxesInputs == OptTuples(Seqs(0..(MaxDim - 1), MaxDim))

InitCoord ==
    /\ op = "init"
    /\ args \in [obs : ObsInputs, axes : AxesInputs]
    /\ res = NoRes

\* the Coordinates object the arguments construct
Coord == Coordinates_check_convert_obs_axes(args.obs.has, args.obs.v, args.axes.has, args.axes.v)

\* Coordinates(obs, axes)
CoordConstruct ==
    /\ op = "init"
    /\ op' = "Coordinates"
    /\ args' = args
    /\ res' = Coord

\* c.with_obs(obs, allow_superset, allow_subset)
WithObs ==
    /\ op = "init" /\ ~IsErr(Coord)
    /\ \E new \in ObsInputs, allow_superset, allow_subset \in BOOLEAN :
        /\ op' = "with_obs"
        /\ args' = [obs |-> args.obs, axes |-> args.axes, new |-> new,
                    allow_superset |-> allow_superset, allow_subset |-> allow_subset]
        /\ res' = Coordinates_with_obs(Coord, new.has, new.v, allow_superset, allow_subset)

\* c.with_axes(axes, allow_superset, allow_subset)
WithAxes ==
    /\ op = "init" /\ ~IsErr(Coord)
    /\ \E new \in AxesInputs, allow_superset, allow_subset \in BOOLEAN :
        /\ op' = "with_axes"
        /\ args' = [obs |-> args.obs, axes |-> args.axes, new |-> new,
                    allow_superset |-> allow_superset, allow_subset |-> allow_subset]
        /\ res' = Coordinates_with_axes(Coord, new.has, new.v, allow_superset, allow_subset)

\* c.with_autofill_axes(overwrite)
WithAutofillAxes ==
    /\ op = "init" /\ ~IsErr(Coord)
    /\ \E overwrite \in BOOLEAN :
        /\ op' = "with_autofill_axes"
        /\ args' = [obs |-> args.obs, axes |-> args.axes, overwrite |-> overwrite]
        /\ res' = Coordinates_with_autofill_axes(Coord, overwrite)

\* c.get_reorder_indices(obs=...) or c.get_reorder_indices(axes=...)
GetReorderIndices ==
    /\ op = "init" /\ ~IsErr(Coord)
    /\ \E new \in ({"obs"} \X ObsInputs) \cup ({"axes"} \X AxesInputs) :
        /\ op' = "get_reorder_indices"
        /\ args' = [obs |-> args.obs, axes |-> args.axes, scheme |-> new[1], new |-> new[2]]
        /\ res' = IF new[1] = "obs"
                  THEN get_reorder_indices(Coord, new[2].has, new[2].v, FALSE, <<>>)
                  ELSE get_reorder_indices(Coord, FALSE, <<>>, new[2].has, new[2].v)

NextCoord == CoordConstruct \/ WithObs \/ WithAxes \/ WithAutofillAxes \/ GetReorderIndices

SpecCoord == InitCoord /\ [][NextCoord]_vars

\* the Coordinates at hand are valid: constructed, no name and no position twice
ValidCoord == ~IsErr(Coord) /\ NoDups(args.obs.v) /\ NoDups(args.axes.v)

\* C14: with_obs(new_obs, allow_superset, allow_subset) on valid Coordinates with obs
\* returns only if new_obs is the same set as c.obs, or a strict superset with
\* allow_superset, or a strict subset with allow_subset; otherwise it raises.
C14_WithObsRejectsForeignObs ==
    (op = "with_obs" /\ ValidCoord /\ args.obs.has /\ args.new.has /\ ~IsErr(res))
    => LET new == Range(args.new.v)
           old == Range(args.obs.v)
       IN \/ new = old
          \/ new # old /\ old \subseteq new /\ args.allow_superset
          \/ new # old /\ new \subseteq old /\ args.allow_subset

\* C15: for valid Coordinates c, c.with_obs(c.obs) succeeds and gives Coordinates equal
\* to c, with the obs in the same order and the axes in the same order.
C15_WithOwnObsIsIdentity ==
    (op = "with_obs" /\ ValidCoord /\ args.new = args.obs)
    => /\ ~IsErr(res)
       /\ res.hasObs = Coord.hasObs /\ res.obs = Coord.obs
       /\ res.hasAxes = Coord.hasAxes /\ res.axes = Coord.axes
       /\ Coordinates_eq(res, Coord)

C15_Witness ==
    /\ op = "with_obs" /\ ValidCoord /\ args.new = args.obs
    /\ args.obs.v = <<"y", "x">> /\ args.axes.v = <<1, 0>>
    /\ res.type = "Coordinates" /\ res.obs = <<"y", "x">> /\ res.axes = <<1, 0>>

\* q is a reordering of the obs of the valid Coordinates at hand
ReorderingAsked ==
    /\ op = "get_reorder_indices" /\ ValidCoord /\ args.scheme = "obs"
    /\ args.obs.has /\ args.new.has /\ NoDups(args.new.v)
    /\ Range(args.new.v) = Range(args.obs.v)

\* C16: for a reordering q of c.obs, get_reorder_indices(obs=q) is a permutation of the
\* positions of c.obs (counted from 1 here, from 0 in Python) with c.obs[indices[i]] = q[i],
\* and reordering by it and then by the indices of the inverse reordering gives c.obs back.
C16_ReorderIndicesArePermutation ==
    ReorderingAsked
    => /\ ~IsErr(res)
       /\ Len(res.v) = Len(args.obs.v)
       /\ Range(res.v) = 1..Len(args.obs.v)
       /\ \A i \in 1..Len(res.v) : args.obs.v[res.v[i]] = args.new.v[i]
       /\ LET back == get_reorder_indices(
                          Coordinates_with_obs(Coord, TRUE, args.new.v, FALSE, FALSE),
                          TRUE, args.obs.v, FALSE, <<>>)
          IN /\ ~IsErr(back)
             /\ reorder_seq(reorder_seq(args.obs.v, res.v), back.v) = args.obs.v

C16_Witness ==
    /\ ReorderingAsked
    /\ args.obs.v = <<"x", "z">> /\ args.new.v = <<"z", "x">>
    /\ res.type = "indices" /\ res.v = <<2, 1>>

\* C17: Coordinates that were constructed, or obtained by with_obs, with_axes or
\* with_autofill_axes, have no name twice in obs and no position twice in axes.
C17_NoDuplicateCoordinates ==
    (op \in {"Coordinates", "with_obs", "with_axes", "with_autofill_axes"} /\ res.type = "Coordinates")
    => NoDups(res.obs) /\ NoDups(res.axes)

(***************************************************************************)
(* Limit: inside on an array of rows, iteration over the sub-limits        *)
(*                                                                         *)
(* An array x of shape (n_rows, n_obs) is a sequence of rows; a boolean    *)
(* tensor is a record with its shape and its values.                       *)
(***************************************************************************)
\* tf.broadcast_to(True, x.shape)
broadcast_to_true(x) ==
    [type |-> "tensor", shape |-> <<Len(x), Len(x[1])>>,
     v |-> [r \in 1..Len(x) |-> [c \in 1..Len(x[1]) |-> TRUE]]]

\* Limit.inside(x, guarantee_limits) for x of shape (n_rows, n_obs)
Limit_inside_x(l, x, guarantee_limits) ==
    IF Len(x[1]) # l.n_obs THEN Err("ShapeIncompatibleError")
    ELSE IF guarantee_limits /\ Limit_has_rect_limits(l) THEN broadcast_to_true(x)
    ELSE IF Limit_has_rect_limits(l)
    THEN [type |-> "tensor", shape |-> <<Len(x)>>,
          v |-> [r \in 1..Len(x) |-> inside_rect_limits(x[r], l.lower, l.upper)]]
    ELSE IF l.limit_fn \in {FnNone, FnFalse} THEN Err("TypeError")
    ELSE [type |-> "tensor", shape |-> <<Len(x)>>,
          v |-> [r \in 1..Len(x) |-> LimitFn(l.limit_fn, x[r])]]

\* the arguments of Limit(limit_fn, rect_limits); copy: the Limit is then copied, Limit(Limit(...))
LimitInputs ==
    {[limit_fn |-> lr[1], rect_limits |-> lr[2], copy |-> c] :
        lr \in UNION {LimitArgs(n) : n \in 1..MaxDim}, c \in BOOLEAN}

\* Limit.__init__(limit_fn=a Limit)
Limit_copy(l) == Limit_check_convert_input_limits([k |-> "limit", l |-> l], NoneArg, NoNObs)

\* the Limit the arguments construct
LimitOf(a) ==
    IF a.copy THEN Limit_copy(Limit_check_convert_input_limits(a.limit_fn, a.rect_limits, NoNObs))
    ELSE Limit_check_convert_input_limits(a.limit_fn, a.rect_limits, NoNObs)

\* arrays of one or two rows over n columns
Arrays(n) == {<<p>> : p \in Points(n)} \cup {<<p, q>> : p, q \in Points(n)}

InitLimit ==
    /\ op = "init"
    /\ args \in [limit : LimitInputs]
    /\ res = NoRes

\* limit.inside(x, guarantee_limits)
LimitInside ==
    /\ op = "init"
    /\ \E x \in UNION {Arrays(n) : n \in 1..MaxDim}, guarantee_limits \in BOOLEAN :
        /\ op' = "inside"
        /\ args' = [limit |-> args.limit, x |-> x, guarantee_limits |-> guarantee_limits]
        /\ res' = Limit_inside_x(LimitOf(args.limit), x, guarantee_limits)

\* tuple(limit): the sub-limits
LimitIter ==
    /\ op = "init"
    /\ op' = "iter"
    /\ args' = args
    /\ res' = [type |-> "tuple", v |-> Limit_iter(LimitOf(args.limit))]

NextLimit == LimitInside \/ LimitIter

SpecLimit == InitLimit /\ [][NextLimit]_vars

L == LimitOf(args.limit)

\* C18: for a rectangular Limit and x of shape (n_rows, n_obs), inside returns one
\* boolean per row: all true with guarantee_limits=True, and with guarantee_limits=False
\* true for a row exactly when lower <= row <= upper in every dimension.
C18_InsideOneBooleanPerRow ==
    (op = "inside" /\ Limit_has_rect_limits(L) /\ Len(args.x[1]) = L.n_obs)
    => /\ res.type = "tensor"
       /\ res.shape = <<Len(args.x)>>
       /\ \A r \in 1..Len(args.x) :
             res.v[r] = (\/ args.guarantee_limits
                         \/ \A i \in 1..L.n_obs :
                               L.lower[i] <= args.x[r][i] /\ args.x[r][i] <= L.upper[i])

\* C19: a rectangular Limit with n_obs > 1, built from a box or as a copy of a Limit,
\* iterates to n_obs rectangular sub-limits of one dimension, the i-th with the i-th
\* lower and upper bound; any other Limit iterates to itself alone.
C19_IterGivesSublimits ==
    (op = "iter")
    => IF Limit_has_rect_limits(L) /\ L.n_obs > 1
       THEN /\ Len(res.v) = L.n_obs
            /\ \A i \in 1..Len(res.v) :
                  /\ Limit_has_rect_limits(res.v[i]) /\ res.v[i].n_obs = 1
                  /\ res.v[i].lower = <<L.lower[i]>> /\ res.v[i].upper = <<L.upper[i]>>
       ELSE res.v = <<L>>

(***************************************************************************)
(* Equality of Limits                                                      *)
(***************************************************************************)
\* the i-th element of a row broadcast against a row of n elements
BroadcastAt(row, i) == IF Len(row) = 1 THEN row[1] ELSE row[i]

\* z.unstable.reduce_all(z.unstable.allclose(a, b)) for a = (lower, upper) and
\* b = (lower_other, upper_other): element-wise comparison of the bounds
allclose(a, b) ==
    IF Len(a[1]) # Len(b[1]) /\ Len(a[1]) # 1 /\ Len(b[1]) # 1 THEN "ValueError"
    ELSE IF \A k \in 1..2 : \A i \in 1..(IF Len(a[1]) > Len(b[1]) THEN Len(a[1]) ELSE Len(b[1])) :
               BroadcastAt(a[k], i) = BroadcastAt(b[k], i)
    THEN "True" ELSE "False"

\* z.unstable.logical_and(rect_limits_equal, funcs_equal)
logical_and(rect_limits_equal, funcs_equal) ==
    IF rect_limits_equal \notin {"True", "False"} THEN rect_limits_equal
    ELSE IF rect_limits_equal = "True" /\ funcs_equal THEN "True" ELSE "False"

\* the comparison with the bounds of the second Limit taken as a ceiling
equal_limits_one_sided(limit1, limit2) ==
    IF limit1.rect # "box" \/ limit2.rect # "box" THEN "TypeError"
    ELSE IF Len(limit1.lower) # Len(limit2.lower) THEN "False"
    ELSE IF (\A i \in 1..Len(limit1.lower) : limit1.lower[i] <= limit2.lower[i]
                                             /\ limit1.upper[i] <= limit2.upper[i])
            /\ limit1.limit_fn = limit2.limit_fn
    THEN "True" ELSE "False"

\* equal_limits(limit1, limit2, allow_graph): "True", "False" or the exception raised
equal_limits(limit1, limit2) ==
    IF limit1.rect # "box" \/ limit2.rect # "box" THEN "TypeError"   \* lower, upper = None / False
    ELSE logical_and(allclose(<<limit1.lower, limit1.upper>>, <<limit2.lower, limit2.upper>>),
                     limit1.limit_fn = limit2.limit_fn)

InitLimitEq ==
    /\ op = "init"
    /\ args \in {<<a, b>> \in LimitInputs \X LimitInputs : ~a.copy /\ ~b.copy}
    /\ res = NoRes

\* limit1.equal(limit2), limit1 == limit2
LimitEqual ==
    /\ op = "init"
    /\ op' = "equal"
    /\ args' = args
    /\ res' = PyBool(equal_limits(LimitOf(args[1]), LimitOf(args[2])))

NextLimitEq == LimitEqual

SpecLimitEq == InitLimitEq /\ [][NextLimitEq]_vars

CmpDim == 1

\* Limit._rect_limits_np: "ok", or the exception raised
Limit_rect_limits_np(l, deferred) ==
    IF l.rect # "box" THEN "TypeError"   \* lower, upper = None / False
    ELSE IF deferred THEN "CannotConvertToNumpyError"
    ELSE "ok"

\* the handler of CannotConvertToNumpyError made to raise whatever allow_graph is
graph_handler_strict(limit1, limit2, allow_graph) == "IllegalInGraphModeError"

\* except CannotConvertToNumpyError: raise, or take the bounds as tensors
graph_handler(limit1, limit2, allow_graph) ==
    IF ~allow_graph THEN "IllegalInGraphModeError"
    ELSE IF limit1.rect # "box" \/ limit2.rect # "box" THEN "TypeError"
    ELSE "tensor"

\* the try / except at the head of less_equal_limits and equal_limits: the bounds are
\* compared as numpy arrays ("numpy") or as tensors ("tensor"), or an exception is raised
bounds_to_compare(limit1, deferred1, limit2, deferred2, allow_graph) ==
    IF Limit_rect_limits_np(limit1, deferred1) = "TypeError" THEN "TypeError"
    ELSE IF Limit_rect_limits_np(limit1, deferred1) = "CannotConvertToNumpyError"
    THEN graph_handler(limit1, limit2, allow_graph)
    ELSE IF Limit_rect_limits_np(limit2, deferred2) = "TypeError" THEN "TypeError"
    ELSE IF Limit_rect_limits_np(limit2, deferred2) = "CannotConvertToNumpyError"
    THEN graph_handler(limit1, limit2, allow_graph)
    ELSE "numpy"

\* z.unstable.reduce_all(z.unstable.less_equal(a, b), axis=-1)
less_equal_all(a, b) ==
    IF Len(a) # Len(b) /\ Len(a) # 1 /\ Len(b) # 1 THEN "ValueError"
    ELSE IF \A i \in 1..(IF Len(a) > Len(b) THEN Len(a) ELSE Len(b)) :
               BroadcastAt(a, i) <= BroadcastAt(b, i)
    THEN "True" ELSE "False"

\* the body of less_equal_limits after the bounds are taken
less_equal_limits(limit1, limit2) ==
    IF less_equal_all(limit1.lower, limit2.lower) \notin {"True", "False"}
    THEN less_equal_all(limit1.lower, limit2.lower)
    ELSE logical_and(
             logical_and(less_equal_all(limit1.upper, limit2.upper),
                         less_equal_all(limit1.lower, limit2.lower) = "True"),
             limit1.limit_fn = limit2.limit_fn)

\* what a comparison returns: a boolean, a boolean tensor of the graph, or an exception
compared(mode, value) ==
    IF mode \notin {"numpy", "tensor"} THEN Err(mode)
    ELSE IF value \notin {"True", "False"} THEN Err(value)
    ELSE [type |-> IF mode = "tensor" THEN "tensor" ELSE "bool", v |-> value]

\* Limit.equal(other, allow_graph)
Limit_equal(self, deferred1, other, deferred2, allow_graph) ==
    compared(bounds_to_compare(self, deferred1, other, deferred2, allow_graph),
             IF self.rect = "box" /\ other.rect = "box" THEN equal_limits(self, other) ELSE "TypeError")

\* Limit.less_equal(other, allow_graph)
Limit_less_equal(self, deferred1, other, deferred2, allow_graph) ==
    compared(bounds_to_compare(self, deferred1, other, deferred2, allow_graph),
             IF self.rect = "box" /\ other.rect = "box" THEN less_equal_limits(self, other) ELSE "TypeError")

\* Limit.__eq__ (the later definition in the class body)
Limit_eq(self, deferred1, other, deferred2) == Limit_equal(self, deferred1, other, deferred2, FALSE)

\* Limit.__le__
Limit_le(self, deferred1, other, deferred2) == Limit_less_equal(self, deferred1, other, deferred2, FALSE)

\* the arguments of the Limits compared
CmpLimits ==
    {[limit_fn |-> lr[1], rect_limits |-> lr[2], copy |-> FALSE] :
        lr \in UNION {LimitArgs(n) : n \in 1..CmpDim}}

InitCmp ==
    /\ op = "init"
    /\ args \in [l1 : CmpLimits, d1 : BOOLEAN, l2 : CmpLimits, d2 : BOOLEAN, allow_graph : {FALSE}]
    /\ res = NoRes

\* limit1.equal(limit2, allow_graph)
CmpEqual ==
    /\ op = "init"
    /\ \E allow_graph \in BOOLEAN :
        /\ op' = "equal"
        /\ args' = [args EXCEPT !.allow_graph = allow_graph]
        /\ res' = Limit_equal(LimitOf(args.l1), args.d1, LimitOf(args.l2), args.d2, allow_graph)

\* limit1.less_equal(limit2, allow_graph)
CmpLessEqual ==
    /\ op = "init"
    /\ \E allow_graph \in BOOLEAN :
        /\ op' = "less_equal"
        /\ args' = [args EXCEPT !.allow_graph = allow_graph]
        /\ res' = Limit_less_equal(LimitOf(args.l1), args.d1, LimitOf(args.l2), args.d2, allow_graph)

\* limit1 == limit2
CmpEq ==
    /\ op = "init"
    /\ op' = "=="
    /\ args' = args
    /\ res' = Limit_eq(LimitOf(args.l1), args.d1, LimitOf(args.l2), args.d2)

\* limit1 <= limit2
CmpLe ==
    /\ op = "init"
    /\ op' = "<="
    /\ args' = args
    /\ res' = Limit_le(LimitOf(args.l1), args.d1, LimitOf(args.l2), args.d2)

NextCmp == CmpEqual \/ CmpLessEqual \/ CmpEq \/ CmpLe

SpecLimitCmp == InitCmp /\ [][NextCmp]_vars

\* two Limits with bounds over the same number of dimensions have been compared
BoundsCompared ==
    /\ op \in {"equal", "less_equal", "==", "<="}
    /\ LimitOf(args.l1).rect = "box" /\ LimitOf(args.l2).rect = "box"
    /\ LimitOf(args.l1).n_obs = LimitOf(args.l2).n_obs

C22_PredicateSpaceHasLimits ==
    (Constructed /\ args.limits.k \in {"box", "fn"})
    => /\ Space_has_limits(res) = "True"
       /\ args.limits.k = "fn"
          => /\ Space_has_rect_limits(res) = "False"
             /\ Space_rect_limits(res) = [type |-> "False"]
             /\ Space_limits_are_false(res) = "False"

(***************************************************************************)
(* Space.with_obs, Space.with_axes and Space.copy                          *)
(***************************************************************************)
\* the coordinates asked of with_obs / with_axes: None or a tuple
CoordRequests(tuples) == {NoCoord} \cup {TupleCoord(t) : t \in tuples}

\* the keyword arguments given to copy: none, a name, a key copy does not know
CopyOverrides == {[keys |-> k] : k \in SUBSET {"name", "binning"}}

InitWith ==
    /\ op = "init"
    /\ args \in [space : AddSpaces]
    /\ res = NoRes

\* s.with_obs(obs, allow_superset, allow_subset)
SpaceWithObs ==
    /\ op = "init"
    /\ \E new \in CoordRequests(ObsTuples(MaxDim)), allow_superset, allow_subset \in BOOLEAN :
        /\ op' = "with_obs"
        /\ args' = [space |-> args.space, new |-> new]
        /\ res' = Space_with_obs(Build(args.space), new, allow_superset, allow_subset)

\* s.with_axes(axes, allow_superset, allow_subset)
SpaceWithAxes ==
    /\ op = "init"
    /\ \E new \in CoordRequests(AxesTuples(MaxDim)), allow_superset, allow_subset \in BOOLEAN :
        /\ op' = "with_axes"
        /\ args' = [space |-> args.space, new |-> new]
        /\ res' = Space_with_axes(Build(args.space), new, allow_superset, allow_subset)

\* s.copy(**overwrite_kwargs)
SpaceCopy ==
    /\ op = "init"
    /\ \E ov \in CopyOverrides :
        /\ op' = "copy"
        /\ args' = [space |-> args.space, new |-> ov]
        /\ res' = Space_copy(Build(args.space), ov)

NextWith == SpaceWithObs \/ SpaceWithAxes \/ SpaceCopy

SpecWith == InitWith /\ [][NextWith]_vars

\* the Space the method was called on
Self == Build(args.space)

\* with_obs was called on a Space built from one box, with a reordering of its obs
ReorderedBox ==
    /\ op = "with_obs" /\ args.space.limits.k = "box"
    /\ Self.hasObs /\ args.new.k = "tuple"
    /\ Len(args.new.v) = Len(Self.obs) /\ Range(args.new.v) = Range(Self.obs)

\* C23: for a rectangular Space s built from one box and a permutation p of s.obs,
\* s.with_obs(p) has obs = p, and its rect_lower and rect_upper at position i are the
\* bounds s has on dimension p[i].
C23_ReorderCarriesLimits ==
    ReorderedBox
    => /\ res.type = "Space" /\ res.obs = args.new.v
       /\ Space_rect_limits(res).type = "rect"
       /\ \A i \in 1..Len(args.new.v) :
             /\ Space_rect_limits(res).lower[i]
                    = args.space.limits.lower[IndexOf(Self.obs, args.new.v[i])]
             /\ Space_rect_limits(res).upper[i]
                    = args.space.limits.upper[IndexOf(Self.obs, args.new.v[i])]

C23_Witness ==
    /\ ReorderedBox
    /\ Self.obs = <<"x", "y">> /\ args.new.v = <<"y", "x">>
    /\ args.space.limits = BoxArg(<<0, 1>>, <<1, 2>>)
    /\ res.type = "Space" /\ Space_rect_limits(res) = [type |-> "rect", lower |-> <<1, 0>>, upper |-> <<2, 1>>]

\* C24: copy with a keyword other than name, limits, axes and obs raises KeyError;
\* copy without keywords returns a Space with the same obs, axes and limits mapping.
C24_CopyRejectsForeignKeys ==
    (op = "copy")
    => /\ "binning" \in args.new.keys => Raised("KeyError")
       /\ args.new.keys = {}
          => /\ res.type = "Space"
             /\ res.hasObs = Self.hasObs /\ res.obs = Self.obs
             /\ res.hasAxes = Self.hasAxes /\ res.axes = Self.axes
             /\ res.ld = Self.ld

(***************************************************************************)
(* The bound sentinels ANY, ANY_LOWER, ANY_UPPER                           *)
(*                                                                         *)
(* An operand is a sentinel [cls, id] or a number [cls |-> "int", id].     *)
(* single[cls] is cls._singleton_instance (0 = None), next the identity of *)
(* the next object created.                                                *)
(***************************************************************************)
SentinelClasses == {"Any", "AnyLower", "AnyUpper"}

\* what the method cls.__lt__ / __le__ / __gt__ / __ge__ (own or inherited) returns
SentinelMethod(cls, cmp) ==
    IF cls = "int" THEN "NotImplemented"   \* a number compared with a sentinel
    ELSE IF cls = "AnyLower" /\ cmp \in {">=", ">"} THEN "False"
    ELSE IF cls = "AnyUpper" /\ cmp \in {"<=", "<"} THEN "False"
    ELSE "True"

\* the operator with its operands swapped
Reflected(cmp) == CASE cmp = "<" -> ">" [] cmp = "<=" -> ">=" [] cmp = ">" -> "<" [] cmp = ">=" -> "<="

\* v cmp w: the reflected method of w comes first when the class of w is derived from
\* the class of v (AnyLower(Any), AnyUpper(Any)), else the method of v
sentinel_compare(v, cmp, w) ==
    IF v.cls = "Any" /\ w.cls \in {"AnyLower", "AnyUpper"}
    THEN SentinelMethod(w.cls, Reflected(cmp))
    ELSE IF SentinelMethod(v.cls, cmp) # "NotImplemented" THEN SentinelMethod(v.cls, cmp)
    ELSE IF SentinelMethod(w.cls, Reflected(cmp)) # "NotImplemented"
    THEN SentinelMethod(w.cls, Reflected(cmp))
    ELSE "TypeError"

\* Any.__new__(cls)
Any_new(st, cls) ==
    IF st.single[cls] = 0
    THEN [single |-> [st.single EXCEPT ![cls] = st.next], next |-> st.next + 1, instance |-> st.next]
    ELSE [st EXCEPT !.instance = st.single[cls]]

\* the classes as defined (__init_subclass__ gives each subclass its own
\* _singleton_instance = None), then ANY = Any(), ANY_LOWER = AnyLower(), ANY_UPPER = AnyUpper()
SentinelsDefined ==
    Any_new(Any_new(Any_new([single |-> [c \in SentinelClasses |-> 0], next |-> 1, instance |-> 0],
                            "Any"), "AnyLower"), "AnyUpper")

\* the operands: the three sentinels and numbers
SentinelOperands ==
    {[cls |-> c, id |-> SentinelsDefined.single[c]] : c \in SentinelClasses}
    \cup {[cls |-> "int", id |-> n] : n \in 0..(MaxVal + 1)}

InitSentinel ==
    /\ op = "init"
    /\ args \in {a \in [left : SentinelOperands, cmp : {"<", "<=", ">", ">="},
                       right : SentinelOperands, st : {SentinelsDefined}] :
                    a.left.cls # "int" \/ a.right.cls # "int"}
    /\ res = NoRes

\* left cmp right
SentinelCompare ==
    /\ op = "init"
    /\ op' = "compare"
    /\ args' = args
    /\ res' = PyBool(sentinel_compare(args.left, args.cmp, args.right))

\* Any(), AnyLower() or AnyUpper() called again
SentinelNew ==
    /\ op \in {"init", "new"}
    /\ \E cls \in SentinelClasses :
        /\ op' = "new"
        /\ args' = [args EXCEPT !.st = Any_new(args.st, cls)]
        /\ res' = [type |-> "instance", cls |-> cls, id |-> Any_new(args.st, cls).instance]

NextSentinel == SentinelCompare \/ SentinelNew

SpecSentinel == InitSentinel /\ [][NextSentinel]_vars

\* the value the sentinel of class cls is declared to give for `sentinel cmp v`
Declared(cls, cmp) ==
    IF cls = "AnyLower" THEN (IF cmp \in {"<=", "<"} THEN "True" ELSE "False")
    ELSE IF cls = "AnyUpper" THEN (IF cmp \in {">=", ">"} THEN "True" ELSE "False")
    ELSE "True"

\* C25: a sentinel on the left of <, <=, >, >= gives the declared value against every
\* operand, numbers and sentinels alike; a number on the left of a sentinel gives the
\* declared value of the mirrored operator; ANY, ANY_LOWER and ANY_UPPER are three
\* distinct objects, and calling a class again returns its one instance.
C25_SentinelsOrderAsDeclared ==
    /\ (op = "compare" /\ args.left.cls # "int")
       => res = PyBool(Declared(args.left.cls, args.cmp))
    /\ (op = "compare" /\ args.left.cls = "int")
       => res = PyBool(Declared(args.right.cls, Reflected(args.cmp)))
    /\ (op = "new")
       => /\ res.id = SentinelsDefined.single[res.cls]
          /\ \A c1, c2 \in SentinelClasses : c1 # c2 => args.st.single[c1] # args.st.single[c2]

\* C27: for a rectangular Space with obs and axes, with_obs(None) returns a Space
\* without obs, with the same axes and the same rect_limits, and with_axes(None) one
\* without axes, with the same obs and rect_limits; for a rectangular Space with obs
\* only, with_axes(axes) with n_obs axes returns a Space with the obs, those axes and
\* the same rect_limits.
C27_SchemeChangeKeepsLimits ==
    /\ (op = "with_obs" /\ args.space.limits.k = "box" /\ Self.hasObs /\ Self.hasAxes
            /\ args.new.k = "None")
       => /\ res.type = "Space" /\ ~res.hasObs /\ res.axes = Self.axes
          /\ Space_has_rect_limits(res) = "True"
          /\ Space_rect_limits(res) = Space_rect_limits(Self)
    /\ (op = "with_axes" /\ args.space.limits.k = "box" /\ Self.hasObs /\ Self.hasAxes
            /\ args.new.k = "None")
       => /\ res.type = "Space" /\ ~res.hasAxes /\ res.obs = Self.obs
          /\ Space_has_rect_limits(res) = "True"
          /\ Space_rect_limits(res) = Space_rect_limits(Self)
    /\ (op = "with_axes" /\ args.space.limits.k = "box" /\ Self.hasObs /\ ~Self.hasAxes
            /\ args.new.k = "tuple" /\ Len(args.new.v) = Self.n_obs)
       => /\ res.type = "Space" /\ res.obs = Self.obs /\ res.axes = args.new.v
          /\ Space_rect_limits(res) = Space_rect_limits(Self)

(***************************************************************************)
(* Spaces reached from a Space built with a bare box by with_obs,          *)
(* with_axes, with_coords and get_subspace, in any sequence                *)
(***************************************************************************)
\* Coordinates objects to reorder by
ChainCoords ==
    {Coordinates_check_convert_obs_axes(TRUE, t, FALSE, <<>>) : t \in ObsTuples(MaxDim)}
    \cup {Coordinates_check_convert_obs_axes(FALSE, <<>>, TRUE, t) : t \in AxesTuples(MaxDim)}

\* the Space at hand is the one just constructed
InitChain ==
    /\ op = "init"
    /\ args \in {a \in AddSpaces : a.limits.k = "box"}
    /\ res = Build(args)

ChainWithObs ==
    /\ res.type = "Space"
    /\ \E new \in ObsTuples(MaxDim), allow_superset, allow_subset \in BOOLEAN :
        /\ op' = "with_obs"
        /\ res' = Space_with_obs(res, TupleCoord(new), allow_superset, allow_subset)
    /\ args' = args

ChainWithAxes ==
    /\ res.type = "Space"
    /\ \E new \in AxesTuples(MaxDim), allow_superset, allow_subset \in BOOLEAN :
        /\ op' = "with_axes"
        /\ res' = Space_with_axes(res, TupleCoord(new), allow_superset, allow_subset)
    /\ args' = args

ChainWithCoords ==
    /\ res.type = "Space"
    /\ \E coords \in ChainCoords, allow_superset, allow_subset \in BOOLEAN :
        /\ op' = "with_coords"
        /\ res' = Space_with_coords(res, coords, allow_superset, allow_subset)
    /\ args' = args

ChainGetSubspace ==
    /\ res.type = "Space"
    /\ \E new \in {<<TupleCoord(t), NoCoord>> : t \in ObsTuples(MaxDim)}
                  \cup {<<NoCoord, TupleCoord(t)>> : t \in AxesTuples(MaxDim)} :
        /\ op' = "get_subspace"
        /\ res' = Space_get_subspace(res, new[1], new[2])
    /\ args' = args

NextChain == ChainWithObs \/ ChainWithAxes \/ ChainWithCoords \/ ChainGetSubspace

SpecChain == InitChain /\ [][NextChain]_vars

\* the dimensions under the keys of the limits mapping for the scheme in use
KeyDims(s) ==
    Flatten([i \in 1..Len(IF s.hasObs THEN s.ld.obs ELSE s.ld.axes) |->
                (IF s.hasObs THEN s.ld.obs ELSE s.ld.axes)[i].key])

\* C28: in every Space reached from a Space built with a bare box, the keys of the
\* limits mapping for the scheme in use are pairwise disjoint, hold only dimensions of
\* the coords and cover each of them once, and inside can be evaluated on every x
\* with n_obs columns.
C28_KeysPartitionCoords ==
    (res.type = "Space")
    => /\ NoDups(KeyDims(res))
       /\ Range(KeyDims(res)) = Range(IF res.hasObs THEN res.obs ELSE res.axes)
       /\ \A x \in Points(res.n_obs) : Space_inside(res, x, FALSE) \in {"True", "False"}

(***************************************************************************)
(* Hash of a Limit                                                         *)
(***************************************************************************)
\* Limit.__hash__: the hash of the tuple (limit_fn, n_obs); the bounds are left out
Limit_hash(l) == <<l.limit_fn, l.n_obs>>

\* C29: two Limits with bounds that compare equal have the same n_obs and the same
\* hash.
C29_EqualLimitsSameHash ==
    (op = "equal" /\ res = PyBool("True"))
    => /\ LimitOf(args[1]).n_obs = LimitOf(args[2]).n_obs
       /\ Limit_hash(LimitOf(args[1])) = Limit_hash(LimitOf(args[2]))

(***************************************************************************)
(* pll: the profile likelihood at given parameter values                   *)
(* (src/zfit/minimizers/errors.py)                                         *)
(***************************************************************************)
MaxParams == 2
MaxVerbosity == 2

\* the collaborators at entry: minimizer.verbosity and the floating flag of each
\* parameter in params
PllInputs ==
    UNION {[verbosity : 0..MaxVerbosity, floating : [1..n -> BOOLEAN]] : n \in 1..MaxParams}

\* the parameters as the caller left them
ParamsOf(a) == [i \in 1..Len(a.floating) |-> [floating |-> a.floating[i], value |-> "old"]]

\* set_values(params, values): __enter__ sets the values, __exit__ puts the old ones back
set_values(params, value) == [i \in 1..Len(params) |-> [params[i] EXCEPT !.value = value]]

\* param.floating = flag
set_floating(params, i, flag) == [params EXCEPT ![i].floating = flag]

InitPll ==
    /\ op = "init"
    /\ args \in PllInputs
    /\ res = [type |-> "pll", verbosity |-> args.verbosity, params |-> ParamsOf(args),
              saved |-> 0, i |-> 1]

\* verbosity = minimizer.verbosity; minimizer.verbosity = 0; with set_values(...):
PllEnter ==
    /\ op = "init"
    /\ op' = "fix"
    /\ res' = [res EXCEPT !.saved = res.verbosity, !.verbosity = 0,
                          !.params = set_values(res.params, "new"), !.i = 1]
    /\ args' = args

\* for param in params: param.floating = False
PllFix ==
    /\ op = "fix"
    /\ res.i <= Len(res.params)
    /\ op' = "fix"
    /\ res' = [res EXCEPT !.params = set_floating(res.params, res.i, FALSE), !.i = res.i + 1]
    /\ args' = args

\* minimum = minimizer.minimize(loss=loss) returns; the with block is left
PllMinimize ==
    /\ op = "fix"
    /\ res.i > Len(res.params)
    /\ op' = "release"
    /\ res' = [res EXCEPT !.params = set_values(res.params, "old"), !.i = 1]
    /\ args' = args

\* minimizer.minimize raises; the with block is left and the exception leaves pll
PllMinimizeRaises ==
    /\ op = "fix"
    /\ res.i > Len(res.params)
    /\ op' = "raised"
    /\ res' = [res EXCEPT !.params = set_values(res.params, "old")]
    /\ args' = args

\* for param in params: param.floating = True
PllRelease ==
    /\ op = "release"
    /\ res.i <= Len(res.params)
    /\ op' = "release"
    /\ res' = [res EXCEPT !.params = set_floating(res.params, res.i, TRUE), !.i = res.i + 1]
    /\ args' = args

\* minimizer.verbosity = verbosity; return minimum.fmin
PllReturn ==
    /\ op = "release"
    /\ res.i > Len(res.params)
    /\ op' = "returned"
    /\ res' = [res EXCEPT !.verbosity = res.saved]
    /\ args' = args

NextPll == PllEnter \/ PllFix \/ PllMinimize \/ PllMinimizeRaises \/ PllRelease \/ PllReturn

SpecPll == InitPll /\ [][NextPll]_vars

\* C30: when pll returns, and when minimizer.minimize raises, minimizer.verbosity
\* is what it was at entry and every parameter has the floating flag it had at entry.
C30_PllRestoresCollaborators ==
    (op \in {"returned", "raised"})
    => /\ res.verbosity = args.verbosity
       /\ \A i \in 1..Len(res.params) : res.params[i].floating = args.floating[i]

(***************************************************************************)
(* The Space a method is called on, after the call                         *)
(***************************************************************************)
\* self._limits_dict after self._limits_dict[scheme] was read: a defaultdict stores
\* an empty dict under a key it does not have
DictTouched(d, scheme) ==
    IF scheme = "obs" /\ ~d.hasObs /\ d.isDefault THEN [d EXCEPT !.hasObs = TRUE]
    ELSE IF scheme = "axes" /\ ~d.hasAxes /\ d.isDefault THEN [d EXCEPT !.hasAxes = TRUE]
    ELSE d

\* tuple(ldict.items()) as hashed: the keys and the hashes of the Limits
limits_frozen(entries) ==
    [i \in 1..Len(entries) |-> <<entries[i].key, Limit_hash(entries[i].limit)>>]

\* Coordinates.__hash__
Coordinates_hash(c) == 42

\* Space.__hash__: the frozen items of _limits_dict and the hash of the coords; a
\* top-level key that holds a Limit has no items()
Space_hash(s) ==
    IF Len(s.ld.strayObs) + Len(s.ld.strayAxes) > 0 THEN Err("AttributeError")
    ELSE [type |-> "hash",
          v |-> <<s.ld.hasObs, limits_frozen(s.ld.obs), s.ld.hasAxes, limits_frozen(s.ld.axes),
                  Coordinates_hash(CoordsOf(s))>>]

\* self after self.get_subspace(obs, axes): _extract_limits reads the mapping of the
\* scheme asked for
after_get_subspace(s, obsArg, axesArg) ==
    IF (obsArg.k # "None") = (axesArg.k # "None") THEN s
    ELSE [s EXCEPT !.ld = DictTouched(s.ld, IF obsArg.k # "None" THEN "obs" ELSE "axes")]

\* self after self.with_obs(obs): only with_obs(None) reads self._limits_dict['obs']
after_with_obs(s, obsArg) ==
    IF obsArg.k = "None" /\ s.hasObs /\ s.hasAxes
    THEN [s EXCEPT !.ld = DictTouched(s.ld, "obs")]
    ELSE s

\* self after self.with_axes(axes): with_axes(None) reads self._limits_dict['axes'],
\* with_axes(axes) on a Space without axes reads self._limits_dict['obs']
after_with_axes(s, axesArg) ==
    IF axesArg.k = "None"
    THEN IF s.hasAxes /\ s.hasObs THEN [s EXCEPT !.ld = DictTouched(s.ld, "axes")] ELSE s
    ELSE IF ~s.hasAxes /\ Len(axesArg.v) = Len(s.obs)
    THEN [s EXCEPT !.ld = DictTouched(s.ld, "obs")]
    ELSE s

\* self after self.inside(x): _inside reads the mapping of the scheme in use
after_inside(s, x, guarantee_limits) ==
    IF Len(x) # s.n_obs \/ Space_has_rect_limits(s) \notin {"True", "False"}
       \/ (Space_has_rect_limits(s) = "True" /\ guarantee_limits)
    THEN s
    ELSE [s EXCEPT !.ld = DictTouched(s.ld, IF s.hasObs THEN "obs" ELSE "axes")]

\* the Space as constructed, and no call made yet
InitFrame ==
    /\ op = "init"
    /\ args \in [space : AddSpaces]
    /\ res = [type |-> "frame", self |-> Build(args.space), out |-> NoRes]

FrameGetSubspace ==
    /\ \E new \in {<<TupleCoord(t), NoCoord>> : t \in ObsTuples(MaxDim)}
                  \cup {<<NoCoord, TupleCoord(t)>> : t \in AxesTuples(MaxDim)}
                  \cup {<<NoCoord, NoCoord>>} :
        /\ op' = "get_subspace"
        /\ res' = [type |-> "frame", self |-> after_get_subspace(res.self, new[1], new[2]),
                   out |-> Space_get_subspace(res.self, new[1], new[2])]
    /\ args' = args

FrameWithObs ==
    /\ \E new \in CoordRequests(ObsTuples(MaxDim)), allow_superset, allow_subset \in BOOLEAN :
        /\ op' = "with_obs"
        /\ res' = [type |-> "frame", self |-> after_with_obs(res.self, new),
                   out |-> Space_with_obs(res.self, new, allow_superset, allow_subset)]
    /\ args' = args

FrameWithAxes ==
    /\ \E new \in CoordRequests(AxesTuples(MaxDim)), allow_superset, allow_subset \in BOOLEAN :
        /\ op' = "with_axes"
        /\ res' = [type |-> "frame", self |-> after_with_axes(res.self, new),
                   out |-> Space_with_axes(res.self, new, allow_superset, allow_subset)]
    /\ args' = args

FrameInside ==
    /\ \E x \in Points(res.self.n_obs), guarantee_limits \in BOOLEAN :
        /\ op' = "inside"
        /\ res' = [type |-> "frame", self |-> after_inside(res.self, x, guarantee_limits),
                   out |-> PyBool(Space_inside(res.self, x, guarantee_limits))]
    /\ args' = args

FrameCopy ==
    /\ op' = "copy"
    /\ res' = [type |-> "frame", self |-> res.self, out |-> Space_copy(res.self, [keys |-> {}])]
    /\ args' = args

NextFrame == FrameGetSubspace \/ FrameWithObs \/ FrameWithAxes \/ FrameInside \/ FrameCopy

SpecFrame == InitFrame /\ [][NextFrame]_vars

\* C26: after any sequence of get_subspace, with_obs, with_axes, inside and copy calls
\* on a Space, raising ones included, the Space has the obs, the axes, the limits
\* mapping and the hash it was constructed with.
C26_SpaceNeverMutated ==
    /\ res.self.hasObs = Build(args.space).hasObs /\ res.self.obs = Build(args.space).obs
    /\ res.self.hasAxes = Build(args.space).hasAxes /\ res.self.axes = Build(args.space).axes
    /\ res.self.ld = Build(args.space).ld
    /\ Space_hash(res.self) = Space_hash(Build(args.space))

====
